---- MODULE Spec2Model ----
(***************************************************************************)
(* A model of the serial (SWAR) backend of StringZilla: src/src/serial.c   *)
(* and the helpers of src/include/stringzilla/stringzilla.h.               *)
(*                                                                         *)
(* The library is a set of pure functions.  Every function is an operator  *)
(* computed the way the C code computes it; a specification draws the      *)
(* arguments of one call in Init, and its actions perform the call.        *)
(*                                                                         *)
(* Representation.                                                         *)
(*   - a byte is a number 0..255, a string a sequence of bytes; the C      *)
(*     index i is the TLA+ index i+1;                                      *)
(*   - a pointer is a (string, offset) pair; a read outside the string     *)
(*     yields the byte junk, whatever lies in memory around the string;    *)
(*   - a machine word is the set of the positions of its 1 bits, bit 0     *)
(*     the least significant (sz_u64_t: a subset of 0..63), loaded         *)
(*     little-endian as on x86-64 and AArch64;                             *)
(*   - `char` is signed or unsigned as the build decides (charSigned).     *)
(***************************************************************************)
EXTENDS Integers, Sequences, FiniteSets, TLC

VARIABLES
    pc,          \* "call" before the call, "done" after it returned
    op,          \* the function called
    arg,         \* its arguments
    ret,         \* its return value, once pc = "done"
    charSigned,  \* the build: is plain `char` a signed type
    misaligned,  \* the build: SZ_USE_MISALIGNED_LOADS
    junk         \* the byte found in memory outside the strings

vars == <<pc, op, arg, ret, charSigned, misaligned, junk>>

\* ------------------------------------------------------------------ bounds

\* equal: lengths 0..MaxEqualLen (two 8-byte rounds of the switch and a tail)
MaxEqualLen == 17

\* order: all strings of 0..MaxOrderShort bytes, and tails of 0..MaxOrderTail
\* bytes behind one 8-byte block
MaxOrderShort == 2
MaxOrderTail == 1

\* find_byte, rfind_byte: haystacks of 0..MaxHayLen bytes (a head of up to 7
\* bytes, one 8-byte word, a tail)
MaxHayLen == 16

\* ------------------------------------------------------------- C constants

sz_NULL == -1
sz_less_k == -1
sz_equal_k == 0
sz_greater_k == 1

\* --------------------------------------------------------------- utilities

Min2(x, y) == IF x < y THEN x ELSE y
SetMin(S) == CHOOSE x \in S : \A y \in S : x <= y
SetMax(S) == CHOOSE x \in S : \A y \in S : y <= x

\* n copies of the byte c
Rep(c, n) == [i \in 1..n |-> c]

\* the string s with the byte at C index i replaced by c
Poke(s, i, c) == [s EXCEPT ![i + 1] = c]

\* *(p + i) for the pointer p = s + off of the C code: s[off + i]
Rd(s, i) == IF i >= 0 /\ i < Len(s) THEN s[i + 1] ELSE junk

\* the value of a `char` holding the byte b, after integer promotion
AsChar(b) == IF charSigned /\ b >= 128 THEN b - 256 ELSE b

\* ------------------------------------------------------------ machine words

AllBits64 == 0..63

\* the bits of the byte value v, moved to byte k of a word
ByteBits(v, k) == {8 * k + b : b \in {c \in 0..7 : (v \div (2 ^ c)) % 2 = 1}}

\* byte k of the word w, as a number
ByteAt(w, k) ==
    LET f(b) == IF (8 * k + b) \in w THEN 2 ^ b ELSE 0
    IN  f(0) + f(1) + f(2) + f(3) + f(4) + f(5) + f(6) + f(7)

\* the word whose bytes, least significant first, are bs[1], bs[2], ...
FromBytes(bs) ==
    {i \in AllBits64 : i \div 8 < Len(bs) /\ i \in ByteBits(bs[i \div 8 + 1], i \div 8)}

\* the eight bytes of a 64-bit word, least significant first
ToBytes(w) == [k \in 1..8 |-> ByteAt(w, k - 1)]

Xor(a, b) == {i \in AllBits64 : (i \in a) # (i \in b)}
And(a, b) == {i \in AllBits64 : i \in a /\ i \in b}
Or(a, b) == {i \in AllBits64 : i \in a \/ i \in b}
Not64(a) == {i \in AllBits64 : i \notin a}
Shl64(a, k) == {i \in AllBits64 : (i - k) \in a}
Shr(a, k) == {i \in AllBits64 : (i + k) \in a}

\* (sz_u64_t)c for a value c of type `char` or `int`: sign extension
SignExtend64(c) ==
    IF c >= 0 THEN ByteBits(c % 256, 0) \cup ByteBits((c \div 256) % 256, 1)
              ELSE ByteBits((c + 256) % 256, 0) \cup (8..63)

RECURSIVE AddBytes(_, _, _, _)
AddBytes(x, y, k, carry) ==
    IF k > 8 THEN <<>>
    ELSE LET s == x[k] + y[k] + carry
         IN  <<s % 256>> \o AddBytes(x, y, k + 1, s \div 256)

\* a + b modulo 2^64
Add64(a, b) == FromBytes(AddBytes(ToBytes(a), ToBytes(b), 1, 0))

RECURSIVE MulBytes(_, _, _, _)
MulBytes(x, y, k, carry) ==
    IF k > 8 THEN <<>>
    ELSE LET RECURSIVE col(_)
             col(i) == IF i > k THEN 0 ELSE x[i] * y[k + 1 - i] + col(i + 1)
             s == col(1) + carry
         IN  <<s % 256>> \o MulBytes(x, y, k + 1, s \div 256)

\* a * b modulo 2^64
Mul64(a, b) == FromBytes(MulBytes(ToBytes(a), ToBytes(b), 1, 0))

\* __builtin_ctzll and __builtin_clzll of a word that is not zero
sz_ctz64(w) == SetMin(w)
sz_clz64(w) == 63 - SetMax(w)

\* sz_u16/u32/u64_unaligned_load(s + off): little-endian
sz_u16_unaligned_load(s, off) == FromBytes(<<Rd(s, off), Rd(s, off + 1)>>)
sz_u32_unaligned_load(s, off) ==
    FromBytes(<<Rd(s, off), Rd(s, off + 1), Rd(s, off + 2), Rd(s, off + 3)>>)
sz_u64_unaligned_load(s, off) == FromBytes([k \in 1..8 |-> Rd(s, off + k - 1)])

\* ------------------------------------------------------------------- equal

B2I(b) == IF b THEN 1 ELSE 0

\* sz_equal_serial, #if SZ_USE_MISALIGNED_LOADS: the switch table
RECURSIVE sz_equal_serial_switch(_, _, _, _, _)

\* sz_equal_serial_switch with a case 7 that forgets the last byte, a[6] == b[6]
sz_equal_serial_switch_no7th(a, ao, b, bo, length) ==
    LET e16(d) == sz_u16_unaligned_load(a, ao + d) = sz_u16_unaligned_load(b, bo + d)
        e32(d) == sz_u32_unaligned_load(a, ao + d) = sz_u32_unaligned_load(b, bo + d)
        e64(d) == sz_u64_unaligned_load(a, ao + d) = sz_u64_unaligned_load(b, bo + d)
        e8(d) == Rd(a, ao + d) = Rd(b, bo + d)
    IN  CASE length = 0 -> 1
          [] length = 1 -> B2I(e8(0))
          [] length = 2 -> B2I(e16(0))
          [] length = 3 -> B2I(e16(0) /\ e8(2))
          [] length = 4 -> B2I(e32(0))
          [] length = 5 -> B2I(e32(0) /\ e8(4))
          [] length = 6 -> B2I(e32(0) /\ e16(4))
          [] length = 7 -> B2I(e32(0) /\ e16(4))
          [] length = 8 -> B2I(e64(0))
          [] OTHER -> IF ~e64(0) THEN 0
                      ELSE sz_equal_serial_switch(a, ao + 8, b, bo + 8, length - 8)

sz_equal_serial_switch(a, ao, b, bo, length) ==
    LET e16(d) == sz_u16_unaligned_load(a, ao + d) = sz_u16_unaligned_load(b, bo + d)
        e32(d) == sz_u32_unaligned_load(a, ao + d) = sz_u32_unaligned_load(b, bo + d)
        e64(d) == sz_u64_unaligned_load(a, ao + d) = sz_u64_unaligned_load(b, bo + d)
        e8(d) == Rd(a, ao + d) = Rd(b, bo + d)
    IN  CASE length = 0 -> 1
          [] length = 1 -> B2I(e8(0))
          [] length = 2 -> B2I(e16(0))
          [] length = 3 -> B2I(e16(0) /\ e8(2))
          [] length = 4 -> B2I(e32(0))
          [] length = 5 -> B2I(e32(0) /\ e8(4))
          [] length = 6 -> B2I(e32(0) /\ e16(4))
          [] length = 7 -> B2I(e32(0) /\ e16(4) /\ e8(6))
          [] length = 8 -> B2I(e64(0))
          [] OTHER -> IF ~e64(0) THEN 0
                      ELSE sz_equal_serial_switch(a, ao + 8, b, bo + 8, length - 8)

\* sz_equal_serial, #else: while (a != a_end && *a == *b) a++, b++;
RECURSIVE sz_equal_serial_loop(_, _, _, _, _)
sz_equal_serial_loop(a, ao, b, bo, length) ==
    IF length # 0 /\ Rd(a, ao) = Rd(b, bo)
    THEN sz_equal_serial_loop(a, ao + 1, b, bo + 1, length - 1)
    ELSE B2I(length = 0)

sz_equal_serial(a, ao, b, bo, length) ==
    IF misaligned THEN sz_equal_serial_switch(a, ao, b, bo, length)
                  ELSE sz_equal_serial_loop(a, ao, b, bo, length)

\* ------------------------------------------------- specification: equal

\* the strings equal is called on: a is a run of 'a' or alternates two bytes,
\* b is a with at most two of its bytes changed
Flip(s, i) == Poke(s, i, IF s[i + 1] = 97 THEN 98 ELSE 97)

EqualLeft(n) == {Rep(97, n), [i \in 1..n |-> IF i % 2 = 0 THEN 97 ELSE 200]}

EqualRight(a) ==
    {a} \cup {Flip(Flip(a, i), j) : i, j \in 0..(Len(a) - 1)}
        \cup {Flip(a, i) : i \in 0..(Len(a) - 1)}

EqualArgs ==
    UNION {UNION {{[a |-> a, b |-> b, length |-> n] : b \in EqualRight(a)}
                  : a \in EqualLeft(n)} : n \in 0..MaxEqualLen}

InitEqual ==
    /\ pc = "call"
    /\ op = "equal"
    /\ arg \in EqualArgs
    /\ ret = sz_NULL
    /\ charSigned \in BOOLEAN
    /\ misaligned \in BOOLEAN
    /\ junk = 0

CallEqual ==
    /\ pc = "call"
    /\ op = "equal"
    /\ ret' = sz_equal_serial(arg.a, 0, arg.b, 0, arg.length)
    /\ pc' = "done"
    /\ UNCHANGED <<op, arg, charSigned, misaligned, junk>>

NextEqual == CallEqual

SpecEqual == InitEqual /\ [][NextEqual]_vars

\* the first n bytes of a and b are the same
SameBytes(a, b, n) == \A i \in 1..n : a[i] = b[i]

\* C6: equal(a, b, n) is true iff a[i] = b[i] for every i < n (so true for
\* n = 0 and for b = a), and the switch table of the misaligned-loads build
\* returns what the byte-by-byte loop returns, for every n.
C6_EqualIsBytewise ==
    (pc = "done" /\ op = "equal") =>
        /\ ret = B2I(SameBytes(arg.a, arg.b, arg.length))
        /\ (arg.length = 0 => ret = 1)
        /\ sz_equal_serial_switch(arg.a, 0, arg.a, 0, arg.length) = 1
        /\ sz_equal_serial_switch(arg.a, 0, arg.b, 0, arg.length)
               = sz_equal_serial_loop(arg.a, 0, arg.b, 0, arg.length)

\* C6 witness: the switch table went through its default branch and found
\* the only difference in the last byte
C6_Witness ==
    /\ pc = "done" /\ op = "equal" /\ misaligned
    /\ arg.length > 8 /\ ret = 0
    /\ SameBytes(arg.a, arg.b, arg.length - 1)

\* ------------------------------------------------------------------- order

\* sz_u64_byte_reverse: __builtin_bswap64
sz_u64_byte_reverse(w) == FromBytes([k \in 1..8 |-> ByteAt(w, 8 - k)])

\* a < b for two sz_u64_t values
Less64(a, b) == a # b /\ SetMax(Xor(a, b)) \in b

\* sz_ordering_t ordering_lookup[2] = {sz_greater_k, sz_less_k}, indexed by a
\* comparison's result
ordering_lookup(isLess) == IF isLess THEN sz_less_k ELSE sz_greater_k

\* the trailing loop of sz_order_serial: for (; a != min_end; ++a, ++b)
\*     if (*a != *b) return ordering_lookup[*a < *b];
\* *a and *b are of type char: the comparison is signed where char is.
RECURSIVE sz_order_serial_tail(_, _, _, _)
sz_order_serial_tail(a, b, i, min_length) ==
    IF i = min_length
    THEN IF Len(a) # Len(b) THEN ordering_lookup(Len(a) < Len(b)) ELSE sz_equal_k
    ELSE IF Rd(a, i) # Rd(b, i)
         THEN ordering_lookup(AsChar(Rd(a, i)) < AsChar(Rd(b, i)))
         ELSE sz_order_serial_tail(a, b, i + 1, min_length)

\* the block loop of sz_order_serial: for (...; a + 8 <= min_end; a += 8, b += 8),
\* comparing two byte-reversed 64-bit words as unsigned integers
RECURSIVE sz_order_serial_blocks(_, _, _, _)
sz_order_serial_blocks(a, b, i, min_length) ==
    IF i + 8 <= min_length
    THEN LET a_vec == sz_u64_byte_reverse(sz_u64_unaligned_load(a, i))
             b_vec == sz_u64_byte_reverse(sz_u64_unaligned_load(b, i))
         IN  IF a_vec # b_vec THEN ordering_lookup(Less64(a_vec, b_vec))
             ELSE sz_order_serial_blocks(a, b, i + 8, min_length)
    ELSE sz_order_serial_tail(a, b, i, min_length)

\* sz_order_serial(a, |a|, b, |b|), as built with SZ_USE_MISALIGNED_LOADS (the
\* other branch of the #if declares neither a_shorter nor min_end)
sz_order_serial(a, b) ==
    sz_order_serial_blocks(a, b, 0, IF Len(a) < Len(b) THEN Len(a) ELSE Len(b))

\* ------------------------------------------------- specification: order

\* all strings over the bytes B of length n
RECURSIVE StringsOfLen(_, _)
StringsOfLen(B, n) ==
    IF n = 0 THEN {<<>>}
    ELSE {<<c>> \o t : c \in B, t \in StringsOfLen(B, n - 1)}

StringsUpTo(B, n) == UNION {StringsOfLen(B, k) : k \in 0..n}

\* a byte below 0x80 and one above
OrderBytes == {1, 128}

\* short strings, compared in the trailing loop alone, and strings of one
\* 8-byte block whose first and last byte vary, with a tail of 0..MaxOrderTail
OrderStrings ==
    StringsUpTo(OrderBytes, MaxOrderShort)
    \cup {<<c>> \o Rep(97, 6) \o <<d>> \o t :
             c \in OrderBytes, d \in OrderBytes, t \in StringsUpTo(OrderBytes, MaxOrderTail)}

InitOrder ==
    /\ pc = "call"
    /\ op = "order"
    /\ arg \in [x : OrderStrings, y : OrderStrings, z : OrderStrings]
    /\ ret = sz_NULL
    /\ charSigned \in BOOLEAN
    /\ misaligned = TRUE
    /\ junk = 0

\* order called on the pairs of x, y, z
CallOrder ==
    /\ pc = "call"
    /\ op = "order"
    /\ ret' = [xy |-> sz_order_serial(arg.x, arg.y),
               yx |-> sz_order_serial(arg.y, arg.x),
               yz |-> sz_order_serial(arg.y, arg.z),
               xz |-> sz_order_serial(arg.x, arg.z)]
    /\ pc' = "done"
    /\ UNCHANGED <<op, arg, charSigned, misaligned, junk>>

NextOrder == CallOrder

SpecOrder == InitOrder /\ [][NextOrder]_vars

\* the indices below n at which a and b differ (TLA+ indices)
Diffs(a, b, n) == {i \in 1..n : a[i] # b[i]}

\* lexicographic order of byte strings, bytes compared as numbers 0..255
LexOrder(a, b) ==
    LET n == Min2(Len(a), Len(b))
        d == Diffs(a, b, n)
    IN  IF d # {} THEN (IF a[SetMin(d)] < b[SetMin(d)] THEN sz_less_k ELSE sz_greater_k)
        ELSE IF Len(a) < Len(b) THEN sz_less_k
        ELSE IF Len(a) > Len(b) THEN sz_greater_k
        ELSE sz_equal_k

\* C4: order compares the first min(la, lb) bytes as unsigned values: at the
\* first differing index it answers Less iff a[i] < b[i] unsigned, in a block
\* or in the trailing loop; on an equal common prefix the shorter is Less and
\* equal lengths give Equal.
C4_OrderIsUnsignedLex ==
    (pc = "done" /\ op = "order") => ret.xy = LexOrder(arg.x, arg.y)

\* C5: order is antisymmetric and transitive, and Equal iff the lengths are
\* the same and the bytes equal.
C5_OrderIsAnOrder ==
    (pc = "done" /\ op = "order") =>
        /\ (ret.xy = sz_less_k <=> ret.yx = sz_greater_k)
        /\ (ret.xy = sz_less_k /\ ret.yz = sz_less_k => ret.xz = sz_less_k)
        /\ (ret.xy = sz_equal_k <=>
               Len(arg.x) = Len(arg.y) /\ SameBytes(arg.x, arg.y, Len(arg.x)))

\* ----------------------------------------------------- find_byte, rfind_byte

\* 0x7F7F7F7F7F7F7F7F, 0x0101010101010101 and 0x8080808080808080
Low7OfEachByte == {i \in AllBits64 : i % 8 # 7}
OneInEachByte == {i \in AllBits64 : i % 8 = 0}
TopOfEachByte == {i \in AllBits64 : i % 8 = 7}

\* sz_u64_each_byte_equal: the top bit of every byte in which a and b agree
sz_u64_each_byte_equal(a, b) ==
    LET match_indicators == Not64(Xor(a, b))
    IN  And(Add64(And(match_indicators, Low7OfEachByte), OneInEachByte),
            And(match_indicators, TopOfEachByte))

\* (sz_size_t)text & 7ull for text = haystack + t, the haystack at an address
\* that is align modulo 8
AddressLow3(align, t) == (align + t + 64) % 8

\* needle_vec.u64 = (sz_u64_t)needle[0] * 0x0101010101010101ull: the cast
\* widens the char needle[0], extending its sign where char is signed
BroadcastByte(needle) == Mul64(SignExtend64(AsChar(Rd(needle, 0))), OneInEachByte)

\* the last loop of sz_find_byte_serial: for (; text < end; ++text)
RECURSIVE sz_find_byte_serial_tail(_, _, _)
sz_find_byte_serial_tail(h, needle, t) ==
    IF t < Len(h)
    THEN IF Rd(h, t) = Rd(needle, 0) THEN t
         ELSE sz_find_byte_serial_tail(h, needle, t + 1)
    ELSE sz_NULL

\* the SWAR loop of sz_find_byte_serial: for (; text + 8 <= end; text += 8)
RECURSIVE sz_find_byte_serial_swar(_, _, _)
sz_find_byte_serial_swar(h, needle, t) ==
    IF t + 8 <= Len(h)
    THEN LET text_slice == sz_u64_unaligned_load(h, t)
             match_indicators == sz_u64_each_byte_equal(text_slice, BroadcastByte(needle))
         IN  IF match_indicators # {} THEN t + (sz_ctz64(match_indicators) \div 8)
             ELSE sz_find_byte_serial_swar(h, needle, t + 8)
    ELSE sz_find_byte_serial_tail(h, needle, t)

\* the head loop of sz_find_byte_serial:
\* for (; ((sz_size_t)text & 7ull) && text < end; ++text)
RECURSIVE sz_find_byte_serial_head(_, _, _, _)
sz_find_byte_serial_head(h, align, needle, t) ==
    IF AddressLow3(align, t) # 0 /\ t < Len(h)
    THEN IF Rd(h, t) = Rd(needle, 0) THEN t
         ELSE sz_find_byte_serial_head(h, align, needle, t + 1)
    ELSE sz_find_byte_serial_swar(h, needle, t)

\* sz_find_byte_serial(haystack, |haystack|, needle): the offset of the match
\* from haystack, or sz_NULL
sz_find_byte_serial(h, align, needle) == sz_find_byte_serial_head(h, align, needle, 0)

\* the last loop of sz_rfind_byte_serial: for (; text >= haystack; --text)
RECURSIVE sz_rfind_byte_serial_tail(_, _, _)
sz_rfind_byte_serial_tail(h, needle, t) ==
    IF t >= 0
    THEN IF Rd(h, t) = Rd(needle, 0) THEN t
         ELSE sz_rfind_byte_serial_tail(h, needle, t - 1)
    ELSE sz_NULL

\* the SWAR loop of sz_rfind_byte_serial: for (; text - 8 >= haystack; text -= 8),
\* which loads the eight bytes at text and answers text - 8 + clz / 8
RECURSIVE sz_rfind_byte_serial_swar(_, _, _)
sz_rfind_byte_serial_swar(h, needle, t) ==
    IF t - 8 >= 0
    THEN LET text_slice == sz_u64_unaligned_load(h, t)
             match_indicators == sz_u64_each_byte_equal(text_slice, BroadcastByte(needle))
         IN  IF match_indicators # {} THEN t - 8 + (sz_clz64(match_indicators) \div 8)
             ELSE sz_rfind_byte_serial_swar(h, needle, t - 8)
    ELSE sz_rfind_byte_serial_tail(h, needle, t)

\* the head loop of sz_rfind_byte_serial:
\* for (; ((sz_size_t)text & 7ull) && text >= haystack; --text)
RECURSIVE sz_rfind_byte_serial_head(_, _, _, _)
sz_rfind_byte_serial_head(h, align, needle, t) ==
    IF AddressLow3(align, t) # 0 /\ t >= 0
    THEN IF Rd(h, t) = Rd(needle, 0) THEN t
         ELSE sz_rfind_byte_serial_head(h, align, needle, t - 1)
    ELSE sz_rfind_byte_serial_swar(h, needle, t)

\* sz_rfind_byte_serial(haystack, |haystack|, needle), text = end - 1
sz_rfind_byte_serial(h, align, needle) ==
    sz_rfind_byte_serial_head(h, align, needle, Len(h) - 1)

\* --------------------------------- specification: find_byte, rfind_byte

\* the byte most of a haystack is made of, and the bytes put into it
HayFill == 97
HayMarks == {128}
NeedleBytes == {0, 97, 128}

\* haystacks of n bytes: all HayFill, but for at most two marks of one byte,
\* the second of them at either end
Haystacks(n) ==
    {Rep(HayFill, n)}
    \cup {Poke(Rep(HayFill, n), i, c) : i \in 0..(n - 1), c \in HayMarks}
    \cup {Poke(Poke(Rep(HayFill, n), i, c), j, c) :
             i \in 0..(n - 1), j \in {0, n - 1} \cap (0..(n - 1)), c \in HayMarks}

InitFindByte ==
    /\ pc = "call"
    /\ op \in {"find_byte", "rfind_byte"}
    /\ arg \in [h : UNION {Haystacks(n) : n \in 0..MaxHayLen},
                 n : {<<c>> : c \in NeedleBytes},
                 align : 0..7]
    /\ ret = sz_NULL
    /\ charSigned \in BOOLEAN
    /\ misaligned = TRUE
    /\ junk = 128

CallFindByte ==
    /\ pc = "call"
    /\ op = "find_byte"
    /\ ret' = sz_find_byte_serial(arg.h, arg.align, arg.n)
    /\ pc' = "done"
    /\ UNCHANGED <<op, arg, charSigned, misaligned, junk>>

CallRfindByte ==
    /\ pc = "call"
    /\ op = "rfind_byte"
    /\ ret' = sz_rfind_byte_serial(arg.h, arg.align, arg.n)
    /\ pc' = "done"
    /\ UNCHANGED <<op, arg, charSigned, misaligned, junk>>

NextFindByte == CallFindByte \/ CallRfindByte

SpecFindByte == InitFindByte /\ [][NextFindByte]_vars

\* the C indices at which the needle n occurs in h
Occurrences(h, n) ==
    {p \in 0..(Len(h) - Len(n)) : \A i \in 1..Len(n) : h[p + i] = n[i]}

\* C2: find_byte answers the smallest index holding the needle byte, or
\* not-found when there is none (memchr), for every byte value, every
\* haystack length and every alignment of the haystack.
C2_FindByteIsMemchr ==
    (pc = "done" /\ op = "find_byte") =>
        ret = (IF Occurrences(arg.h, arg.n) = {} THEN sz_NULL
               ELSE SetMin(Occurrences(arg.h, arg.n)))

\* C3: rfind_byte answers the largest index holding the needle byte, or
\* not-found when there is none (memrchr); an answer lies in [0, lh) and
\* holds the needle byte.
C3_RfindByteIsMemrchr ==
    (pc = "done" /\ op = "rfind_byte") =>
        /\ ret = (IF Occurrences(arg.h, arg.n) = {} THEN sz_NULL
                  ELSE SetMax(Occurrences(arg.h, arg.n)))
        /\ (ret # sz_NULL => ret \in Occurrences(arg.h, arg.n))

\* -------------------------------------------------------------------- find

\* the outcome of a call whose behaviour the C standard leaves undefined
sz_UB == 0 - 2

\* 0x7FFF7FFF7FFF7FFF, 0x0001000100010001 and 0x8000800080008000
Low15OfEach2Byte == {i \in AllBits64 : i % 16 # 15}
OneInEach2Byte == {i \in AllBits64 : i % 16 = 0}
TopOfEach2Byte == {i \in AllBits64 : i % 16 = 15}

\* sz_u64_each_2byte_equal: the top bit of every 16-bit lane in which a and b agree
sz_u64_each_2byte_equal(a, b) ==
    LET match_indicators == Not64(Xor(a, b))
    IN  And(Add64(And(match_indicators, Low15OfEach2Byte), OneInEach2Byte),
            And(match_indicators, TopOfEach2Byte))

\* text[0] == needle[0] && ... && text[k-1] == needle[k-1], text = h + t
MatchesAt(h, t, needle, k) == \A i \in 0..(k - 1) : Rd(h, t + i) = Rd(needle, i)

\* the byte-by-byte loops that open and close the 2-, 3- and 4-byte kernels:
\* for (; text + k <= end; ++text) if (text[0..k) == needle[0..k)) return text;
RECURSIVE sz_find_kbyte_serial_tail(_, _, _, _)
sz_find_kbyte_serial_tail(h, needle, k, t) ==
    IF t + k <= Len(h)
    THEN IF MatchesAt(h, t, needle, k) THEN t
         ELSE sz_find_kbyte_serial_tail(h, needle, k, t + 1)
    ELSE sz_NULL

\* the SWAR loop of sz_find_2byte_serial: for (; text + 8 <= end; text += 7)
RECURSIVE sz_find_2byte_serial_swar(_, _, _)
sz_find_2byte_serial_swar(h, needle, t) ==
    IF t + 8 <= Len(h)
    THEN LET needle_vec == Mul64(FromBytes(<<Rd(needle, 0), Rd(needle, 1)>>), OneInEach2Byte)
             text_vec == sz_u64_unaligned_load(h, t)
             matches_even_vec == sz_u64_each_2byte_equal(text_vec, needle_vec)
             matches_odd_vec == sz_u64_each_2byte_equal(Shr(text_vec, 8), needle_vec)
         IN  IF Add64(matches_even_vec, matches_odd_vec) # {}
             THEN t + (sz_ctz64(Or(Shr(matches_even_vec, 8), matches_odd_vec)) \div 8)
             ELSE sz_find_2byte_serial_swar(h, needle, t + 7)
    ELSE sz_find_kbyte_serial_tail(h, needle, 2, t)

\* sz_find_2byte_serial(haystack, |haystack|, needle)
sz_find_2byte_serial(h, needle) == sz_find_2byte_serial_swar(h, needle, 0)

\* x &= x >> 1; x &= x >> 2; x &= x >> 4: bit 0 of each byte tells whether the
\* byte was all ones
FoldBytes(x0) ==
    LET x1 == And(x0, Shr(x0, 1))
        x2 == And(x1, Shr(x1, 2))
    IN  And(x2, Shr(x2, 4))

\* x = (x >> 16) & (x >> 8) & (x >> 0) & 0x0000010000010000
Fold3Bytes(x) == And(And(And(Shr(x, 16), Shr(x, 8)), x), {16, 40})

\* the SWAR loop of sz_find_3byte_serial: for (; text + 8 <= end; text += 6)
RECURSIVE sz_find_3byte_serial_swar(_, _, _)
sz_find_3byte_serial_swar(h, needle, t) ==
    IF t + 8 <= Len(h)
    THEN LET n0 == SignExtend64(AsChar(Rd(needle, 0)))
             n1 == Shl64(SignExtend64(AsChar(Rd(needle, 1))), 8)
             n2 == Shl64(SignExtend64(AsChar(Rd(needle, 2))), 16)
             nn0 == Or(Or(n0, n1), n2)
             nn == Shl64(Or(nn0, Shl64(nn0, 24)), 16)
             text_slice == sz_u64_unaligned_load(h, t)
             first_indicators == Fold3Bytes(FoldBytes(Not64(Xor(text_slice, nn))))
             second_indicators ==
                 Fold3Bytes(FoldBytes(Not64(Xor(Shl64(text_slice, 8), nn))))
             third_indicators ==
                 Fold3Bytes(FoldBytes(Not64(Xor(Shl64(text_slice, 16), nn))))
             match_indicators ==
                 Or(Or(first_indicators, Shr(second_indicators, 8)),
                    Shr(third_indicators, 16))
         IN  IF match_indicators # {} THEN t + (sz_ctz64(match_indicators) \div 8)
             ELSE sz_find_3byte_serial_swar(h, needle, t + 6)
    ELSE sz_find_kbyte_serial_tail(h, needle, 3, t)

\* the head loops of sz_find_3byte_serial and sz_find_4byte_serial:
\* for (; ((sz_size_t)text & 7ull) && text + k <= end; ++text)
RECURSIVE sz_find_kbyte_serial_head(_, _, _, _, _)
sz_find_kbyte_serial_head(h, align, needle, k, t) ==
    IF AddressLow3(align, t) # 0 /\ t + k <= Len(h)
    THEN IF MatchesAt(h, t, needle, k) THEN <<"found", t>>
         ELSE sz_find_kbyte_serial_head(h, align, needle, k, t + 1)
    ELSE <<"aligned", t>>

\* sz_find_3byte_serial(haystack, |haystack|, needle)
sz_find_3byte_serial(h, align, needle) ==
    LET head == sz_find_kbyte_serial_head(h, align, needle, 3, 0)
    IN  IF head[1] = "found" THEN head[2]
        ELSE sz_find_3byte_serial_swar(h, needle, head[2])

\* x &= x >> 1, 2, 4, 8, 16; x &= 0x0000000100000001
Fold4Bytes(x0) ==
    LET x3 == FoldBytes(x0)
        x4 == And(x3, Shr(x3, 8))
    IN  And(And(x4, Shr(x4, 16)), {0, 32})

\* unsigned char offset_in_slice[16]
offset_in_slice(i) ==
    CASE i \in {2, 6, 10, 14} -> 1
      [] i \in {4, 12} -> 2
      [] i = 8 -> 3
      [] OTHER -> 0

\* the SWAR loop of sz_find_4byte_serial: for (; text + 8 <= end; text += 4)
RECURSIVE sz_find_4byte_serial_swar(_, _, _)
sz_find_4byte_serial_swar(h, needle, t) ==
    IF t + 8 <= Len(h)
    THEN LET n0 == SignExtend64(AsChar(Rd(needle, 0)))
             n1 == Shl64(SignExtend64(AsChar(Rd(needle, 1))), 8)
             n2 == Shl64(SignExtend64(AsChar(Rd(needle, 2))), 16)
             n3 == Shl64(SignExtend64(AsChar(Rd(needle, 3))), 24)
             nn0 == Or(Or(n0, n1), Or(n2, n3))
             nn == Or(nn0, Shl64(nn0, 32))
             text_slice == sz_u64_unaligned_load(h, t)
             text01 == Or(And(text_slice, 0..31), Shl64(And(text_slice, 8..39), 24))
             text23 == Or(Shr(And(text_slice, 16..47), 16),
                          Shl64(And(text_slice, 24..55), 8))
             text01_indicators == Fold4Bytes(Not64(Xor(text01, nn)))
             text23_indicators == Fold4Bytes(Not64(Xor(text23, nn)))
             match_indicators ==
                 And(Or(Or(Shr(text01_indicators, 31), text01_indicators),
                        Or(Shr(text23_indicators, 29), Shl64(text23_indicators, 2))),
                     0..7)
         IN  IF Add64(text01_indicators, text23_indicators) # {}
             THEN t + offset_in_slice(ByteAt(match_indicators, 0))
             ELSE sz_find_4byte_serial_swar(h, needle, t + 4)
    ELSE sz_find_kbyte_serial_tail(h, needle, 4, t)

\* sz_find_4byte_serial(haystack, |haystack|, needle)
sz_find_4byte_serial(h, align, needle) ==
    LET head == sz_find_kbyte_serial_head(h, align, needle, 4, 0)
    IN  IF head[1] = "found" THEN head[2]
        ELSE sz_find_4byte_serial_swar(h, needle, head[2])

\* pattern_mask[c] of the Bitap kernels, once
\*     for (i = 0; i < needle_length; ++i) pattern_mask[needle[i]] &= ~(1 << i);
\* has run: every bit of the state but those of the places of c in the needle
pattern_mask(width, needle, needle_length, c) ==
    (0..(width - 1)) \ {i \in 0..(needle_length - 1) : Rd(needle, i) = c}

\* pattern_mask[needle[i]] and pattern_mask[haystack[i]] index a table of 256
\* entries with a `char`: a negative index is outside the table
IndexOutsideTable(s, from, to) ==
    \E i \in from..to : AsChar(Rd(s, i)) < 0

\* one round of the scan of the Bitap kernels over haystack + off:
\*     running_match = (running_match << 1) | pattern_mask[haystack[i]];
\*     if ((running_match & (1 << (needle_length - 1))) == 0)
\*         return haystack + i - needle_length + 1;
\* s.running_match is the state before the round and s.found the value
\* returned so far (sz_NULL: none, the scan goes on)
bitap_round(width, h, off, needle, needle_length, s, i) ==
    IF s.found # sz_NULL THEN s
    ELSE IF AsChar(Rd(h, off + i)) < 0 THEN [s EXCEPT !.found = sz_UB]
    ELSE LET next == Or({b + 1 : b \in s.running_match} \cap (0..(width - 1)),
                        pattern_mask(width, needle, needle_length, Rd(h, off + i)))
         IN  IF (needle_length - 1) \notin next
             THEN [s EXCEPT !.found = off + i - needle_length + 1]
             ELSE [s EXCEPT !.running_match = next]

\* the rounds i = lo, ..., hi - 1 of the scan, one after the other
\* (for (i = 0; i < haystack_length; ++i)), the range halved to keep the
\* evaluation shallow
RECURSIVE bitap_rounds(_, _, _, _, _, _, _, _)
bitap_rounds(width, h, off, needle, needle_length, s, lo, hi) ==
    IF hi <= lo \/ s.found # sz_NULL THEN s
    ELSE IF hi = lo + 1 THEN bitap_round(width, h, off, needle, needle_length, s, lo)
    ELSE LET mid == (lo + hi) \div 2
             left == bitap_rounds(width, h, off, needle, needle_length, s, lo, mid)
         IN  bitap_rounds(width, h, off, needle, needle_length, left, mid, hi)

\* a Bitap kernel whose state has `width` bits, running_match = ~0 at the start
bitap(width, h, off, haystack_length, needle, needle_length) ==
    IF IndexOutsideTable(needle, 0, needle_length - 1) THEN sz_UB
    ELSE bitap_rounds(width, h, off, needle, needle_length,
                      [running_match |-> 0..(width - 1), found |-> sz_NULL],
                      0, haystack_length).found

\* sz_find_under8byte_serial, sz_find_under16byte_serial and
\* sz_find_under64byte_serial (haystack + off, haystack_length, needle, needle_length)
sz_find_under8byte_serial(h, off, haystack_length, needle, needle_length) ==
    bitap(8, h, off, haystack_length, needle, needle_length)

sz_find_under16byte_serial(h, off, haystack_length, needle, needle_length) ==
    bitap(16, h, off, haystack_length, needle, needle_length)

sz_find_under64byte_serial(h, off, haystack_length, needle, needle_length) ==
    bitap(64, h, off, haystack_length, needle, needle_length)

\* sz_size_t prefix_length = 64
prefix_length == 64

\* the loop of sz_find_serial for needles of more than 64 bytes:
\*     for (sz_size_t i = 0; i <= haystack_length - needle_length; ++i)
RECURSIVE sz_find_serial_long(_, _, _)
sz_find_serial_long(h, needle, i) ==
    IF i <= Len(h) - Len(needle)
    THEN LET found == sz_find_under64byte_serial(h, i, Len(h) - i, needle, prefix_length)
         IN  IF found = sz_UB THEN sz_UB
             ELSE IF found = sz_NULL THEN sz_NULL
             ELSE IF sz_equal_serial(h, found + prefix_length, needle, prefix_length,
                                     Len(needle) - prefix_length) = 1
                  THEN found
             ELSE sz_find_serial_long(h, needle, (found + prefix_length - 1) + 1)
    ELSE sz_NULL

\* sz_find_serial(haystack, |haystack|, needle, |needle|): the offset of the
\* match from haystack, sz_NULL, or sz_UB
\* a dispatcher that answers an empty needle with the start of the haystack
sz_find_serial_empty_at_start(h, align, needle) ==
    IF Len(h) < Len(needle) THEN sz_NULL
    ELSE IF Len(needle) = 0 THEN 0
    ELSE sz_find_byte_serial(h, align, <<needle[1]>>)

sz_find_serial(h, align, needle) ==
    IF Len(h) < Len(needle) THEN sz_NULL
    ELSE CASE Len(needle) = 0 -> sz_NULL
           [] Len(needle) = 1 -> sz_find_byte_serial(h, align, needle)
           [] Len(needle) = 2 -> sz_find_2byte_serial(h, needle)
           [] Len(needle) = 3 -> sz_find_3byte_serial(h, align, needle)
           [] Len(needle) = 4 -> sz_find_4byte_serial(h, align, needle)
           [] Len(needle) \in 5..8 ->
                sz_find_under8byte_serial(h, 0, Len(h), needle, Len(needle))
           [] Len(needle) \in 9..16 ->
                sz_find_under16byte_serial(h, 0, Len(h), needle, Len(needle))
           [] Len(needle) \in 17..64 ->
                sz_find_under64byte_serial(h, 0, Len(h), needle, Len(needle))
           [] OTHER -> sz_find_serial_long(h, needle, 0)

\* the search kernel that sz_find_serial calls for these lengths, "none" where
\* it returns before it calls one
find_kernel(h, needle) ==
    IF Len(h) < Len(needle) THEN "none"
    ELSE CASE Len(needle) = 0 -> "none"
           [] Len(needle) = 1 -> "sz_find_byte_serial"
           [] Len(needle) = 2 -> "sz_find_2byte_serial"
           [] Len(needle) = 3 -> "sz_find_3byte_serial"
           [] Len(needle) = 4 -> "sz_find_4byte_serial"
           [] Len(needle) \in 5..8 -> "sz_find_under8byte_serial"
           [] Len(needle) \in 9..16 -> "sz_find_under16byte_serial"
           [] OTHER -> "sz_find_under64byte_serial"

\* ------------------------------------------------------ specification: find

\* one needle length of every class of sz_find_serial's dispatch
NeedleLengths == {1, 2, 3, 4, 5, 9, 17, 65}
\* the haystack is up to MaxFindSlack bytes longer than the needle
MaxFindSlack == 9
\* the last byte of a needle, the bytes before it being HayFill
NeedleLastBytes == {0, 98, 128}

FindNeedles == {Rep(HayFill, k - 1) \o <<c>> : k \in NeedleLengths, c \in NeedleLastBytes}

\* s with the bytes of n written from the C index p on
Plant(s, p, n) ==
    [i \in 1..Len(s) |-> IF i - p \in 1..Len(n) THEN n[i - p] ELSE s[i]]

\* the haystacks searched for the needle n: HayFill alone, or with one copy
\* of the needle in it
FindHaystacks(n) ==
    UNION {{Rep(HayFill, Len(n) + d)}
             \cup {Plant(Rep(HayFill, Len(n) + d), p, n) : p \in 0..d} :
           d \in 0..MaxFindSlack}

FindArgs ==
    UNION {[h : FindHaystacks(n), n : {n}, align : 0..7] : n \in FindNeedles}

InitFind ==
    /\ pc = "call"
    /\ op = "find"
    /\ arg \in FindArgs
    /\ ret = sz_NULL
    /\ charSigned \in BOOLEAN
    /\ misaligned = TRUE
    /\ junk = 98

\* what a call of sz_find_serial may answer: the value the code computes, or,
\* where the code's behaviour is undefined, any offset or NULL
FindOutcomes(h, align, needle) ==
    LET r == sz_find_serial(h, align, needle)
    IN  IF r = sz_UB THEN {sz_NULL} \cup (0..(Len(h) - 1)) ELSE {r}

CallFind ==
    /\ pc = "call"
    /\ op = "find"
    /\ ret' \in FindOutcomes(arg.h, arg.align, arg.n)
    /\ pc' = "done"
    /\ UNCHANGED <<op, arg, charSigned, misaligned, junk>>

NextFind == CallFind

SpecFind == InitFind /\ [][NextFind]_vars

\* C1: find answers the position p iff the needle lies at p inside the
\* haystack and at no position before p, and not-found iff it lies nowhere,
\* for every needle length class, every alignment and every byte value.
C1_FindIsLeftmost ==
    (pc = "done" /\ op = "find") =>
        ret = (IF Occurrences(arg.h, arg.n) = {} THEN sz_NULL
               ELSE SetMin(Occurrences(arg.h, arg.n)))

\* ------------------------------------------------------------- levenshtein

\* #define sz_min_of_two(x, y) (x < y ? x : y)
sz_min_of_two(x, y) == IF x < y THEN x ELSE y
\* #define sz_min_of_three(x, y, z) sz_min_of_two(x, sz_min_of_two(y, z))
sz_min_of_three(x, y, z) == sz_min_of_two(x, sz_min_of_two(y, z))

\* a value stored in a distance of the kernel: the sz_u8_t of
\* _sz_levenshtein_serial_upto256bytes keeps the low 8 bits, the sz_size_t of
\* _sz_levenshtein_serial_over256bytes the whole value (lengths stay far
\* below 2^64)
distance_t(kernel, v) == IF kernel = "upto256bytes" THEN v % 256 ELSE v

\* levenshtein_round with a deletion that costs 2
levenshtein_round_deletion2(kernel, a, idx_a, b, previous_distances, s, idx_b) ==
    LET cost_deletion == distance_t(kernel, previous_distances[idx_b + 2] + 2)
        cost_insertion == distance_t(kernel, s.current_distances[idx_b + 1] + 1)
        cost_substitution ==
            distance_t(kernel, previous_distances[idx_b + 1]
                               + B2I(a[idx_a + 1] # b[idx_b + 1]))
        cell == sz_min_of_three(cost_deletion, cost_insertion, cost_substitution)
    IN  [current_distances |-> Append(s.current_distances, cell),
         min_distance |-> sz_min_of_two(cell, s.min_distance)]

\* one round of the inner loop, for (idx_b = 0; idx_b != b_length; ++idx_b):
\* s.current_distances holds current_distances[0 .. idx_b] before the round
levenshtein_round(kernel, a, idx_a, b, previous_distances, s, idx_b) ==
    LET cost_deletion == distance_t(kernel, previous_distances[idx_b + 2] + 1)
        cost_insertion == distance_t(kernel, s.current_distances[idx_b + 1] + 1)
        cost_substitution ==
            distance_t(kernel, previous_distances[idx_b + 1]
                               + B2I(a[idx_a + 1] # b[idx_b + 1]))
        cell == sz_min_of_three(cost_deletion, cost_insertion, cost_substitution)
    IN  [current_distances |-> Append(s.current_distances, cell),
         min_distance |-> sz_min_of_two(cell, s.min_distance)]

\* the rounds idx_b = lo, ..., hi - 1 of the inner loop, one after the other
\* (none once current_distances[b_length] is written), the range halved to
\* keep the evaluation shallow
RECURSIVE levenshtein_rounds(_, _, _, _, _, _, _, _)
levenshtein_rounds(kernel, a, idx_a, b, previous_distances, s, lo, hi) ==
    IF hi <= lo \/ Len(s.current_distances) > Len(b) THEN s
    ELSE IF hi = lo + 1
         THEN levenshtein_round(kernel, a, idx_a, b, previous_distances, s, lo)
    ELSE LET mid == (lo + hi) \div 2
             left == levenshtein_rounds(kernel, a, idx_a, b, previous_distances, s, lo, mid)
         IN  levenshtein_rounds(kernel, a, idx_a, b, previous_distances, left, mid, hi)

\* one round of the outer loop, for (idx_a = 0; idx_a != a_length; ++idx_a):
\* t.returned is the value returned so far (sz_NULL: none, the loop goes on)
levenshtein_row(kernel, a, b, bound, t, idx_a) ==
    IF t.returned # sz_NULL THEN t
    ELSE LET s == levenshtein_rounds(kernel, a, idx_a, b, t.previous_distances,
                      [current_distances |-> <<distance_t(kernel, idx_a + 1)>>,
                       min_distance |-> bound],
                      0, Len(b))
         IN  IF s.min_distance >= bound THEN [t EXCEPT !.returned = bound]
             ELSE [t EXCEPT !.previous_distances = s.current_distances]

\* the rounds idx_a = lo, ..., hi - 1 of the outer loop, one after the other
RECURSIVE levenshtein_rows(_, _, _, _, _, _, _)
levenshtein_rows(kernel, a, b, bound, t, lo, hi) ==
    IF hi <= lo \/ t.returned # sz_NULL THEN t
    ELSE IF hi = lo + 1 THEN levenshtein_row(kernel, a, b, bound, t, lo)
    ELSE LET mid == (lo + hi) \div 2
             upper == levenshtein_rows(kernel, a, b, bound, t, lo, mid)
         IN  levenshtein_rows(kernel, a, b, bound, upper, mid, hi)

\* the body the two kernels share but for the type of a distance
levenshtein_kernel(kernel, a, b, bound) ==
    LET t == levenshtein_rows(kernel, a, b, bound,
                 [previous_distances |-> [j \in 1..(Len(b) + 1) |-> distance_t(kernel, j - 1)],
                  returned |-> sz_NULL],
                 0, Len(a))
        last == t.previous_distances[Len(b) + 1]
    IN  IF t.returned # sz_NULL THEN t.returned
        ELSE IF last < bound THEN last ELSE bound

sz_levenshtein_serial_upto256bytes(a, b, bound) ==
    levenshtein_kernel("upto256bytes", a, b, bound)

sz_levenshtein_serial_over256bytes(a, b, bound) ==
    levenshtein_kernel("over256bytes", a, b, bound)

\* sz_levenshtein_serial(a, |a|, b, |b|, buffer, bound)
sz_levenshtein_serial(a, b, bound) ==
    IF Len(a) = 0 THEN (IF Len(b) <= bound THEN Len(b) ELSE bound)
    ELSE IF Len(b) = 0 THEN (IF Len(a) <= bound THEN Len(a) ELSE bound)
    ELSE IF Len(a) > Len(b) /\ Len(a) - Len(b) > bound THEN bound
    ELSE IF Len(a) <= Len(b) /\ Len(b) - Len(a) > bound THEN bound
    ELSE IF Len(a) < 256 /\ Len(b) < 256
         THEN sz_levenshtein_serial_upto256bytes(a, b, bound)
         ELSE sz_levenshtein_serial_over256bytes(a, b, bound)

\* --------------------------------------------------------- alignment score

\* subs[k], a sz_error_cost_t (`char`), of a table of 256 x 256 costs that
\* holds the byte subs.same at the places x * 256 + x and the byte subs.other
\* at every other place; outside the table, the byte found in memory there
subs_at(subs, k) ==
    IF k \notin 0..65535 THEN AsChar(junk)
    ELSE IF k \div 256 = k % 256 THEN AsChar(subs.same) ELSE AsChar(subs.other)

\* the place in subs that a_subs[b[idx_b]] reads, a_subs = subs + a[idx_a] * 256ul,
\* for the bytes ca = a[idx_a] and cb = b[idx_b], both of type `char`
subs_index(ca, cb) == AsChar(ca) * 256 + AsChar(cb)

\* some cell of the table of a against b is read outside subs[0 .. 65535]
SubsIndexOutsideTable(a, b) ==
    \E i \in 1..Len(a), j \in 1..Len(b) : subs_index(a[i], b[j]) \notin 0..65535

\* previous_distances once
\*     for (idx_b = 0; idx_b != (b_length + 1); ++idx_b) previous_distances[idx_b] = idx_b;
\* has run
alignment_first_row(b) == [j \in 1..(Len(b) + 1) |-> j - 1]

\* current_distances[0] = idx_a + 1
alignment_row_seed(idx_a) == idx_a + 1

\* one round of the inner loop, for (idx_b = 0; idx_b != b_length; ++idx_b),
\* with a_subs = subs + a[idx_a] * 256ul: cur holds current_distances[0 .. idx_b]
alignment_round(a, idx_a, b, gap, subs, previous_distances, cur, idx_b) ==
    LET cost_deletion == previous_distances[idx_b + 2] + gap
        cost_insertion == cur[idx_b + 1] + gap
        cost_substitution ==
            previous_distances[idx_b + 1]
            + subs_at(subs, subs_index(a[idx_a + 1], b[idx_b + 1]))
    IN  Append(cur, sz_min_of_three(cost_deletion, cost_insertion, cost_substitution))

RECURSIVE alignment_rounds(_, _, _, _, _, _, _, _, _)
alignment_rounds(a, idx_a, b, gap, subs, previous_distances, cur, lo, hi) ==
    IF hi <= lo \/ Len(cur) > Len(b) THEN cur
    ELSE IF hi = lo + 1
         THEN alignment_round(a, idx_a, b, gap, subs, previous_distances, cur, lo)
    ELSE LET mid == (lo + hi) \div 2
             left == alignment_rounds(a, idx_a, b, gap, subs, previous_distances, cur, lo, mid)
         IN  alignment_rounds(a, idx_a, b, gap, subs, previous_distances, left, mid, hi)

\* the rounds idx_a = lo, ..., hi - 1 of the outer loop, one after the other:
\* previous_distances before the first of them to previous_distances after
\* the last
RECURSIVE alignment_rows(_, _, _, _, _, _, _)
alignment_rows(a, b, gap, subs, previous_distances, lo, hi) ==
    IF hi <= lo \/ Len(previous_distances) # Len(b) + 1 THEN previous_distances
    ELSE IF hi = lo + 1
         THEN alignment_rounds(a, lo, b, gap, subs, previous_distances,
                               <<alignment_row_seed(lo)>>, 0, Len(b))
    ELSE LET mid == (lo + hi) \div 2
             upper == alignment_rows(a, b, gap, subs, previous_distances, lo, mid)
         IN  alignment_rows(a, b, gap, subs, upper, mid, hi)

\* sz_alignment_score_serial with an empty a or b weighted by the gap
sz_alignment_score_serial_gap_weighted(a, b, gap, subs) ==
    IF Len(a) = 0 THEN Len(b) * gap
    ELSE IF Len(b) = 0 THEN Len(a) * gap
    ELSE alignment_rows(a, b, gap, subs, alignment_first_row(b), 0, Len(a))[Len(b) + 1]

\* sz_alignment_score_serial(a, |a|, b, |b|, gap, subs, buffer); a byte that
\* is negative as a `char` can take the read of a_subs[b[idx_b]] outside the
\* table
sz_alignment_score_serial(a, b, gap, subs) ==
    IF Len(a) = 0 THEN Len(b)
    ELSE IF Len(b) = 0 THEN Len(a)
    ELSE alignment_rows(a, b, gap, subs, alignment_first_row(b), 0, Len(a))[Len(b) + 1]

\* ------------------------- specification: levenshtein and alignment_score

\* the longest of the short strings
MaxLevShort == 2
\* the long strings have MaxLevLong - 1 and MaxLevLong bytes, the lengths
\* either side of the switch between the two kernels
MaxLevLong == 256
\* the bounds are 0 .. MaxLevBound and Unlimited
MaxLevBound == 3
\* a bound no distance of these strings reaches
Unlimited == 1000000

LevBytes == {97, 98}
LevShort == StringsUpTo(LevBytes, MaxLevShort)
LevLong ==
    UNION {{Rep(98, n), Poke(Rep(98, n), n - 1, 97)} : n \in {MaxLevLong - 1, MaxLevLong}}
LevBounds == (0..MaxLevBound) \cup {Unlimited}

\* the costs of the Levenshtein distance: 0 on the diagonal of the table, 1 elsewhere
unit_subs == [same |-> 0, other |-> 1]

InitLev ==
    /\ pc = "call"
    /\ \/ /\ op = "levenshtein"
          /\ arg \in [x : LevShort, y : LevShort \cup LevLong, bound : LevBounds]
       \/ /\ op = "alignment_score"
          /\ arg \in [x : LevShort \cup LevLong, y : LevShort \cup LevLong, gap : {1},
                       subs : {unit_subs}]
          /\ arg.x \in LevShort \/ arg.y \in LevShort
    /\ ret = sz_NULL
    /\ charSigned \in BOOLEAN
    /\ misaligned = TRUE
    /\ junk = 98

\* the two calls levenshtein(x, y, bound) and levenshtein(y, x, bound)
CallLevenshtein ==
    /\ pc = "call"
    /\ op = "levenshtein"
    /\ ret' = [xy |-> sz_levenshtein_serial(arg.x, arg.y, arg.bound),
               yx |-> sz_levenshtein_serial(arg.y, arg.x, arg.bound)]
    /\ pc' = "done"
    /\ UNCHANGED <<op, arg, charSigned, misaligned, junk>>

\* what a call of sz_alignment_score_serial may answer: the value the code
\* computes, or, where the code's behaviour is undefined, any score
AlignmentOutcomes(a, b, gap, subs) ==
    LET r == sz_alignment_score_serial(a, b, gap, subs)
    IN  IF Len(a) > 0 /\ Len(b) > 0 /\ SubsIndexOutsideTable(a, b)
        THEN {r} \cup (0..(Len(a) + Len(b)))
        ELSE {r}

CallAlignmentScore ==
    /\ pc = "call"
    /\ op = "alignment_score"
    /\ ret' \in AlignmentOutcomes(arg.x, arg.y, arg.gap, arg.subs)
    /\ pc' = "done"
    /\ UNCHANGED <<op, arg, charSigned, misaligned, junk>>

NextLev == CallLevenshtein \/ CallAlignmentScore

SpecLev == InitLev /\ [][NextLev]_vars

\* the row of the edit distances from the first i bytes of the longer
\* string, the last of them c, to every prefix of y, from the row before it
\* (a sequence of numbers: the concatenation has every entry computed)
EditRow(prev, c, y, i) ==
    LET base == [k \in 0..Len(y) |->
                    IF k = 0 THEN i
                    ELSE Min2(prev[k + 1] + 1, prev[k] + B2I(c # y[k]))]
    IN  [j \in 1..(Len(y) + 1) |-> SetMin({base[k] + (j - 1 - k) : k \in 0..(j - 1)})]
        \o <<>>

\* the rows for the bytes lo + 1 .. hi of x, from the row prev of the first lo
RECURSIVE EditRows(_, _, _, _, _)
EditRows(x, y, prev, lo, hi) ==
    IF hi <= lo \/ Len(prev) # Len(y) + 1 THEN prev
    ELSE IF hi = lo + 1 THEN EditRow(prev, x[hi], y, hi)
    ELSE LET mid == (lo + hi) \div 2
         IN  EditRows(x, y, EditRows(x, y, prev, lo, mid), mid, hi)

\* d(x, y), the least number of insertions, deletions and substitutions of
\* one byte that turn x into y
EditDistance(x, y) ==
    LET long == IF Len(x) >= Len(y) THEN x ELSE y
        short == IF Len(x) >= Len(y) THEN y ELSE x
    IN  EditRows(long, short, [j \in 1..(Len(short) + 1) |-> j - 1], 0, Len(long))[Len(short) + 1]

\* C7: for every x, y and bound, levenshtein(x, y, bound) is at most the
\* bound and equals min(d(x, y), bound), d the unbounded edit distance.
C7_LevenshteinIsBoundedDistance ==
    (pc = "done" /\ op = "levenshtein") =>
        /\ ret.xy <= arg.bound
        /\ ret.xy = Min2(EditDistance(arg.x, arg.y), arg.bound)
        /\ ret.yx <= arg.bound
        /\ ret.yx = Min2(EditDistance(arg.y, arg.x), arg.bound)

\* C8: with an unlimited bound levenshtein(x, y) = levenshtein(y, x), pairs
\* with one length below 256 and the other at or above 256 included.
C8_LevenshteinIsSymmetric ==
    (pc = "done" /\ op = "levenshtein" /\ arg.bound = Unlimited) => ret.xy = ret.yx

\* a pair of one string below 256 bytes and one of 256, at a distance above
\* 0, has been measured both ways
C8_Witness ==
    /\ pc = "done"
    /\ op = "levenshtein"
    /\ arg.bound = Unlimited
    /\ Len(arg.x) \in 1..255
    /\ Len(arg.y) >= 256
    /\ ret.xy = ret.yx
    /\ ret.xy > 0

\* C9: with an unlimited bound levenshtein(x, y) = 0 iff x and y have the
\* same length and the same bytes.
C9_LevenshteinZeroIffEqual ==
    (pc = "done" /\ op = "levenshtein" /\ arg.bound = Unlimited) =>
        /\ (ret.xy = 0) <=> (Len(arg.x) = Len(arg.y) /\ SameBytes(arg.x, arg.y, Len(arg.x)))
        /\ (ret.yx = 0) <=> (Len(arg.x) = Len(arg.y) /\ SameBytes(arg.y, arg.x, Len(arg.x)))

\* C10: alignment_score(a, b, gap = 1, subs) with subs 0 on the diagonal and
\* 1 elsewhere returns what levenshtein(a, b) returns with an unlimited bound.
C10_AlignmentScoreIsLevenshtein ==
    (pc = "done" /\ op = "alignment_score" /\ arg.gap = 1 /\ arg.subs = unit_subs) =>
        ret = sz_levenshtein_serial(arg.x, arg.y, Unlimited)

\* ------------------------------------------ specification: alignment_score

\* the strings aligned have 0..MaxAlignLen bytes
MaxAlignLen == 2
\* the gaps are the bytes 0 .. MaxAlignGap and 255, which is -1 where the
\* sz_error_cost_t (`char`) is signed
MaxAlignGap == 2

AlignBytes == {97, 98, 128}
AlignStrings == StringsUpTo(AlignBytes, MaxAlignLen)
AlignGaps == {AsChar(g) : g \in (0..MaxAlignGap) \cup {255}}
\* two tables with subs[x][y] = subs[y][x]
AlignSubs == {unit_subs, [same |-> 255, other |-> 2]}

InitAlign ==
    /\ pc = "call"
    /\ op = "alignment_score_pair"
    /\ charSigned \in BOOLEAN
    /\ arg \in [x : AlignStrings, y : AlignStrings, gap : AlignGaps, subs : AlignSubs]
    /\ ret = sz_NULL
    /\ misaligned = TRUE
    /\ junk = 98

\* current_distances[0] of the rounds idx_a = 0, ..., |a| - 1 of the outer loop
alignment_first_column(a, b, gap, subs) ==
    [i \in 1..Len(a) |-> alignment_rows(a, b, gap, subs, alignment_first_row(b), 0, i)[1]]

\* the two calls alignment_score(x, y, gap, subs) and alignment_score(y, x,
\* gap, subs); first_row and first_column are the cells the call on (x, y)
\* wrote to previous_distances before its loop and to current_distances[0]
\* in it (none when it returned before, none known when it is undefined)
CallAlignmentScorePair ==
    /\ pc = "call"
    /\ op = "alignment_score_pair"
    /\ \E xy \in AlignmentOutcomes(arg.x, arg.y, arg.gap, arg.subs),
          yx \in AlignmentOutcomes(arg.y, arg.x, arg.gap, arg.subs) :
            LET ran == /\ Len(arg.x) > 0
                       /\ Len(arg.y) > 0
                       /\ ~SubsIndexOutsideTable(arg.x, arg.y)
            IN  ret' = [xy |-> xy,
                        yx |-> yx,
                        first_row |-> IF ran THEN alignment_first_row(arg.y) ELSE <<>>,
                        first_column |->
                            IF ran
                            THEN alignment_first_column(arg.x, arg.y, arg.gap, arg.subs)
                            ELSE <<>>]
    /\ pc' = "done"
    /\ UNCHANGED <<op, arg, charSigned, misaligned, junk>>

NextAlign == CallAlignmentScorePair

SpecAlign == InitAlign /\ [][NextAlign]_vars

\* C11: for every gap and every symmetric table subs,
\* alignment_score(x, y, gap, subs) = alignment_score(y, x, gap, subs) for
\* all byte strings x and y, an empty one included.
C11_AlignmentScoreIsSymmetric ==
    (pc = "done" /\ op = "alignment_score_pair") => ret.xy = ret.yx

\* C12: alignment_score answers |b| for an empty a and |a| for an empty b
\* whatever gap and subs are, and on non-empty inputs the first row holds the
\* indices j and the first column the indices i + 1, which are the answers
\* for an empty a against the first j bytes of b and for the first i + 1
\* bytes of a against an empty b.
C12_AlignmentEmptyIsUnweighted ==
    (pc = "done" /\ op = "alignment_score_pair") =>
        /\ Len(arg.x) = 0 => (ret.xy = Len(arg.y) /\ ret.yx = Len(arg.y))
        /\ Len(arg.y) = 0 => (ret.xy = Len(arg.x) /\ ret.yx = Len(arg.x))
        /\ \A j \in 1..Len(ret.first_row) :
              /\ ret.first_row[j] = j - 1
              /\ ret.first_row[j] =
                    sz_alignment_score_serial(<<>>, SubSeq(arg.y, 1, j - 1), arg.gap, arg.subs)
        /\ \A i \in 1..Len(ret.first_column) :
              /\ ret.first_column[i] = (i - 1) + 1
              /\ ret.first_column[i] =
                    sz_alignment_score_serial(SubSeq(arg.x, 1, i), <<>>, arg.gap, arg.subs)

\* an empty a has been aligned with two bytes at a gap of 2, and two
\* non-empty strings at a gap of 2
C12_Witness ==
    /\ pc = "done"
    /\ op = "alignment_score_pair"
    /\ arg.gap = 2
    /\ \/ Len(arg.x) = 0 /\ Len(arg.y) = 2 /\ ret.xy = 2
       \/ Len(ret.first_row) = 3 /\ Len(ret.first_column) = 2

\* -------------------------------------------------------------------- hash

\* the sz_u64_t of a length
WordOf(n) == FromBytes(<<n % 256, (n \div 256) % 256, (n \div 65536) % 256>>)

\* sz_rotl64(x, r) = (x << r) | (x >> (64 - r))
sz_rotl64(x, r) == Or(Shl64(x, r), Shr(x, 64 - r))

\* c1 = 0x87c37b91114253d5 and c2 = 0x4cf5ad432745937f, least significant byte first
hash_c1 == FromBytes(<<213, 83, 66, 17, 145, 123, 195, 135>>)
hash_c2 == FromBytes(<<127, 147, 69, 39, 67, 173, 245, 76>>)
\* 0x52dce729 and 0x38495ab5
hash_n1 == FromBytes(<<41, 231, 220, 82>>)
hash_n2 == FromBytes(<<181, 90, 73, 56>>)

\* k1 *= c1; k1 = sz_rotl64(k1, 31); k1 *= c2;
hash_mix_k1(k1) == Mul64(sz_rotl64(Mul64(k1, hash_c1), 31), hash_c2)
\* the mixing of k2 with the rotation of k1
hash_mix_k2_rotl31(k2) == Mul64(sz_rotl64(Mul64(k2, hash_c2), 31), hash_c1)

\* k2 *= c2; k2 = sz_rotl64(k2, 33); k2 *= c1;
hash_mix_k2(k2) == Mul64(sz_rotl64(Mul64(k2, hash_c2), 33), hash_c1)

\* h1 = h2 = length with a seed that is never 0
hash_seed_nonzero(length) == WordOf(length + 1)

\* h1 = h2 = length
hash_seed(length) == WordOf(length)

\* one round of for (; length >= 16; length -= 16, start += 16), on the 16
\* bytes at start + off, from the lanes h = <<h1, h2>>
hash_block(start, off, h) ==
    LET k1 == sz_u64_unaligned_load(start, off)
        k2 == sz_u64_unaligned_load(start, off + 8)
        h1 == Add64(Mul64(Add64(sz_rotl64(Xor(h[1], hash_mix_k1(k1)), 27), h[2]),
                          WordOf(5)),
                    hash_n1)
        h2 == Add64(Mul64(Add64(sz_rotl64(Xor(h[2], hash_mix_k2(k2)), 31), h1),
                          WordOf(5)),
                    hash_n2)
    IN  <<h1, h2>>

\* the byte that the cases of switch (length & 15) put at place i of k1 or
\* k2 from start[at], for a tail of r bytes: the cases r, r - 1, ..., 1 run,
\* and they read start[0 .. r - 1]; with one byte more read
hash_tail_byte_one_more(start, off, r, at) == IF at <= r THEN Rd(start, off + at) ELSE 0

\* the byte that the cases of switch (length & 15) put at place i of k1 or
\* k2 from start[at], for a tail of r bytes: the cases r, r - 1, ..., 1 run,
\* and they read start[0 .. r - 1]; the places of the others stay 0
hash_tail_byte(start, off, r, at) == IF at < r THEN Rd(start, off + at) ELSE 0

\* switch (length & 15), on the r bytes at start + off
hash_tail(start, off, r, h) ==
    LET k2 == FromBytes([i \in 1..7 |-> hash_tail_byte(start, off, r, 8 + i - 1)])
        k1 == FromBytes([i \in 1..8 |-> hash_tail_byte(start, off, r, i - 1)])
        h2 == IF r >= 9 THEN Xor(h[2], hash_mix_k2(k2)) ELSE h[2]
        h1 == IF r >= 1 THEN Xor(h[1], hash_mix_k1(k1)) ELSE h[1]
    IN  <<h1, h2>>

\* the loop over the blocks, then the tail
RECURSIVE hash_blocks(_, _, _, _)
hash_blocks(start, off, length, h) ==
    IF length >= 16 THEN hash_blocks(start, off + 16, length - 16, hash_block(start, off, h))
    ELSE hash_tail(start, off, length % 16, h)

\* sz_hash_serial(start + off, length): h1 + h2
sz_hash_serial(start, off, length) ==
    LET h == hash_blocks(start, off, length, <<hash_seed(length), hash_seed(length)>>)
    IN  Add64(h[1], h[2])

\* ------------------------------------------------------ specification: hash

\* the strings hashed have 0..MaxHashLen bytes (a block of 16 and a tail)
MaxHashLen == 18

\* strings of n bytes: all HayFill, but for at most one byte 128 at an end
HashStrings(n) ==
    {Rep(HayFill, n)} \cup {Poke(Rep(HayFill, n), i, 128) : i \in {0, n - 1} \cap (0..(n - 1))}

\* the bytes in memory before and after the string in the second call
HashBefore == {<<>>, <<255>>, <<1, 2, 3>>}
HashAfter == {<<>>, <<255, 255>>}

InitHash ==
    /\ pc = "call"
    /\ op = "hash"
    /\ arg \in [bytes : UNION {HashStrings(n) : n \in 0..MaxHashLen},
                 before : HashBefore,
                 after : HashAfter]
    /\ ret = sz_NULL
    /\ charSigned \in BOOLEAN
    /\ misaligned = TRUE
    /\ junk = 98

\* two calls of hash on the same bytes: one on a buffer that holds them
\* alone, one on a buffer that holds them at another address, between other
\* bytes
CallHash ==
    /\ pc = "call"
    /\ op = "hash"
    /\ ret' = [alone |-> sz_hash_serial(arg.bytes, 0, Len(arg.bytes)),
               between |-> sz_hash_serial(arg.before \o arg.bytes \o arg.after,
                                          Len(arg.before), Len(arg.bytes))]
    /\ pc' = "done"
    /\ UNCHANGED <<op, arg, charSigned, misaligned, junk>>

NextHash == CallHash

SpecHash == InitHash /\ [][NextHash]_vars

\* C13: two calls of hash on the same bytes and length return the same
\* digest, whatever the address of the buffer and whatever lies in memory
\* after the last byte.
C13_HashReadsOnlyItsBytes ==
    (pc = "done" /\ op = "hash") => ret.alone = ret.between

\* a string with a block and a tail has been hashed at an odd address, with
\* other bytes behind it
C13_Witness ==
    /\ pc = "done"
    /\ op = "hash"
    /\ Len(arg.bytes) > 16
    /\ Len(arg.before) = 1
    /\ Len(arg.after) > 0
    /\ ret.alone = ret.between
    /\ ret.alone # {}

\* C14: the hash of the empty string is 0: both lanes start at the length,
\* 0, and nothing is mixed into them.
C14_HashOfEmptyIsZero ==
    (pc = "done" /\ op = "hash" /\ Len(arg.bytes) = 0) =>
        /\ ret.alone = {}
        /\ ret.between = {}
        /\ hash_seed(Len(arg.bytes)) = {}

\* the empty string has been hashed in a buffer that holds other bytes
C14_Witness ==
    /\ pc = "done"
    /\ op = "hash"
    /\ Len(arg.bytes) = 0
    /\ Len(arg.after) > 0
    /\ ret.between = {}

\* --------------------------------------------------------- case conversion

\* the rows 192 .. 223 that the two tables share: 224 .. 246, 215, 248 .. 254, 223
latin1_rows(k) == IF k \in (192..222) \ {215} THEN k + 32 ELSE k

\* a table that swaps the case of the letters of ASCII
lowered_swapping_case(k) ==
    IF k \in 65..90 THEN k + 32
    ELSE IF k \in 97..122 THEN k - 32
    ELSE latin1_rows(k)

\* static unsigned char lowered[256] of sz_char_tolower
lowered(k) ==
    IF k \in 65..90 THEN k + 32
    ELSE latin1_rows(k)

\* static unsigned char upped[256] of sz_char_toupper
upped(k) ==
    IF k \in 65..90 THEN k + 32
    ELSE IF k \in 97..122 THEN k - 32
    ELSE latin1_rows(k)

\* sz_char_tolower(c) = *(char *)&lowered[(int)c] for the byte c of type
\* `char`: a negative index reads the byte in memory before the table
sz_char_tolower(c) == IF AsChar(c) \in 0..255 THEN lowered(AsChar(c)) ELSE junk

\* sz_char_toupper(c) = *(char *)&upped[(int)c]
sz_char_toupper(c) == IF AsChar(c) \in 0..255 THEN upped(AsChar(c)) ELSE junk

\* sz_tolower_serial(text, length, result): the bytes written to result
sz_tolower_serial(text) == [i \in 1..Len(text) |-> sz_char_tolower(text[i])]

\* sz_toupper_serial(text, length, result): the bytes written to result
sz_toupper_serial(text) == [i \in 1..Len(text) |-> sz_char_toupper(text[i])]

\* ------------------------------------------- specification: tolower, toupper

\* every string of one byte, and the strings of up to MaxCaseLen of CaseBytes
MaxCaseLen == 2
CaseBytes == {65, 97, 128}
CaseStrings == {<<c>> : c \in 0..255} \cup StringsUpTo(CaseBytes, MaxCaseLen)

InitCase ==
    /\ pc = "call"
    /\ op \in {"tolower", "toupper"}
    /\ arg \in [text : CaseStrings]
    /\ ret = sz_NULL
    /\ charSigned \in BOOLEAN
    /\ misaligned = TRUE
    /\ junk \in {65, 200}

CallTolower ==
    /\ pc = "call"
    /\ op = "tolower"
    /\ ret' = sz_tolower_serial(arg.text)
    /\ pc' = "done"
    /\ UNCHANGED <<op, arg, charSigned, misaligned, junk>>

CallToupper ==
    /\ pc = "call"
    /\ op = "toupper"
    /\ ret' = sz_toupper_serial(arg.text)
    /\ pc' = "done"
    /\ UNCHANGED <<op, arg, charSigned, misaligned, junk>>

NextCase == CallTolower \/ CallToupper

SpecCase == InitCase /\ [][NextCase]_vars

\* C15: to_upper gives a string of the same length in which each of a-z has
\* become the matching A-Z and every other byte of 0..127, A-Z among them,
\* is as it was.
C15_ToUpperIsToupper ==
    (pc = "done" /\ op = "toupper") =>
        /\ Len(ret) = Len(arg.text)
        /\ \A i \in 1..Len(arg.text) :
              arg.text[i] < 128 =>
                  ret[i] = (IF arg.text[i] \in 97..122 THEN arg.text[i] - 32 ELSE arg.text[i])

\* C16: to_lower gives a string of the same length in which each of A-Z has
\* become the matching a-z and every other byte of 0..127, a-z among them,
\* is as it was.
C16_ToLowerIsTolower ==
    (pc = "done" /\ op = "tolower") =>
        /\ Len(ret) = Len(arg.text)
        /\ \A i \in 1..Len(arg.text) :
              arg.text[i] < 128 =>
                  ret[i] = (IF arg.text[i] \in 65..90 THEN arg.text[i] + 32 ELSE arg.text[i])

\* "Aa" has been lowered to "aa"
C16_Witness ==
    /\ pc = "done"
    /\ op = "tolower"
    /\ arg.text = <<65, 97>>
    /\ ret = <<97, 97>>

\* ------------------------------------------ prefix_accepted, prefix_rejected

\* sz_prefix_accepted_serial(text, length, accepted, count): `return 0;`
sz_prefix_accepted_serial(text, accepted) == 0

\* sz_prefix_rejected_serial(text, length, rejected, count): `return 0;`
sz_prefix_rejected_serial(text, rejected) == 0

\* -------------------------- specification: prefix_accepted, prefix_rejected

MaxPrefixText == 3
MaxPrefixSet == 2
PrefixBytes == {97, 98, 128}

InitPrefix ==
    /\ pc = "call"
    /\ op \in {"prefix_accepted", "prefix_rejected"}
    /\ arg \in [text : StringsUpTo(PrefixBytes, MaxPrefixText),
                 set : StringsUpTo(PrefixBytes, MaxPrefixSet)]
    /\ ret = sz_NULL
    /\ charSigned \in BOOLEAN
    /\ misaligned = TRUE
    /\ junk = 0

CallPrefixAccepted ==
    /\ pc = "call"
    /\ op = "prefix_accepted"
    /\ ret' = sz_prefix_accepted_serial(arg.text, arg.set)
    /\ pc' = "done"
    /\ UNCHANGED <<op, arg, charSigned, misaligned, junk>>

CallPrefixRejected ==
    /\ pc = "call"
    /\ op = "prefix_rejected"
    /\ ret' = sz_prefix_rejected_serial(arg.text, arg.set)
    /\ pc' = "done"
    /\ UNCHANGED <<op, arg, charSigned, misaligned, junk>>

NextPrefix == CallPrefixAccepted \/ CallPrefixRejected

SpecPrefix == InitPrefix /\ [][NextPrefix]_vars

\* the bytes of the set accepted[0..count) or rejected[0..count)
Members(set) == {set[i] : i \in 1..Len(set)}

\* the largest k <= Len(text) such that every one of the first k bytes of
\* text is, when inside is TRUE, a member of set and, when it is FALSE, not one
LongestPrefix(text, set, inside) ==
    SetMax({k \in 0..Len(text) : \A i \in 1..k : (text[i] \in Members(set)) = inside})

\* C17: prefix_accepted returns the number of leading bytes of text that all
\* belong to the accepted set, as strspn does.
C17_PrefixAcceptedIsStrspn ==
    (pc = "done" /\ op = "prefix_accepted") =>
        ret = LongestPrefix(arg.text, arg.set, TRUE)

\* C18: prefix_rejected returns the number of leading bytes of text none of
\* which belongs to the rejected set, as strcspn does.
C18_PrefixRejectedIsStrcspn ==
    (pc = "done" /\ op = "prefix_rejected") =>
        ret = LongestPrefix(arg.text, arg.set, FALSE)

\* --------------------------- specification: find, short haystacks and needles

MaxGuardHay == 6
GuardNeedleLengths == {0, 1, 2, 3, 4, 5, 9, 17, 65}

\* the empty needle, and needles of HayFill that end in one of NeedleLastBytes
GuardNeedles ==
    {<<>>} \cup {Rep(HayFill, k - 1) \o <<c>> :
                    k \in GuardNeedleLengths \ {0}, c \in NeedleLastBytes}

\* haystacks of HayFill of 0 .. MaxGuardHay bytes, alone or ending in the
\* last byte of the needle
GuardHaystacks(n) ==
    {Rep(HayFill, k) : k \in 0..MaxGuardHay}
      \cup {Rep(HayFill, k - 1) \o <<n[Len(n)]>> : k \in {j \in 1..MaxGuardHay : Len(n) > 0}}

InitFindGuard ==
    /\ pc = "call"
    /\ op = "find_traced"
    /\ arg \in UNION {[h : GuardHaystacks(n), n : {n}, align : {0, 1}] : n \in GuardNeedles}
    /\ ret = sz_NULL
    /\ charSigned \in BOOLEAN
    /\ misaligned = TRUE
    /\ junk = 98

\* sz_find_serial, with the kernel it called recorded next to its answer
CallFindTraced ==
    /\ pc = "call"
    /\ op = "find_traced"
    /\ \E found \in FindOutcomes(arg.h, arg.align, arg.n) :
          ret' = [found |-> found, kernel |-> find_kernel(arg.h, arg.n)]
    /\ pc' = "done"
    /\ UNCHANGED <<op, arg, charSigned, misaligned, junk>>

NextFindGuard == CallFindTraced

SpecFindGuard == InitFindGuard /\ [][NextFindGuard]_vars

\* C19: find answers not-found and calls no search kernel when the haystack
\* is shorter than the needle, and answers not-found, never the start of the
\* haystack, for an empty needle and every haystack, the empty one included.
C19_FindGuardsShortAndEmpty ==
    (pc = "done" /\ op = "find_traced") =>
        /\ Len(arg.h) < Len(arg.n) => (ret.found = sz_NULL /\ ret.kernel = "none")
        /\ Len(arg.n) = 0 => ret.found = sz_NULL

\* a needle of two bytes has been searched for in a haystack of one
C19_Witness ==
    /\ pc = "done"
    /\ op = "find_traced"
    /\ Len(arg.h) = 1
    /\ Len(arg.n) = 2
    /\ ret.found = sz_NULL

\* the empty needle has been searched for in a haystack that is not empty
C19_WitnessEmptyNeedle ==
    /\ pc = "done"
    /\ op = "find_traced"
    /\ Len(arg.h) = 3
    /\ Len(arg.n) = 0
    /\ ret.found = sz_NULL

\* ------------------------------------------------------- order_terminated

\* sz_order_terminated(a, b) from the C index i on; a and b hold no NUL and
\* are followed by one in memory
RECURSIVE sz_order_terminated_from(_, _, _)
sz_order_terminated_from(a, b, i) ==
    LET ca == IF i < Len(a) THEN a[i + 1] ELSE 0
        cb == IF i < Len(b) THEN b[i + 1] ELSE 0
    IN  IF ca # 0 /\ cb # 0
        THEN IF ca # cb THEN ordering_lookup(AsChar(ca) < AsChar(cb))
             ELSE sz_order_terminated_from(a, b, i + 1)
        ELSE IF ca = 0 /\ cb = 0 THEN sz_equal_k
        ELSE IF ca = 0 THEN sz_less_k
        ELSE sz_greater_k

sz_order_terminated(a, b) == sz_order_terminated_from(a, b, 0)

\* ----------------------------------------- specification: order_terminated

InitOrderTerminated ==
    /\ pc = "call"
    /\ op = "order_terminated"
    /\ arg \in [x : OrderStrings, y : OrderStrings]
    /\ ret = sz_NULL
    /\ charSigned \in BOOLEAN
    /\ misaligned = TRUE
    /\ junk = 0

\* order_terminated(x, y), and order(x, strlen(x), y, strlen(y)) of the same
\* two strings
CallOrderTerminated ==
    /\ pc = "call"
    /\ op = "order_terminated"
    /\ ret' = [terminated |-> sz_order_terminated(arg.x, arg.y),
               sized |-> sz_order_serial(arg.x, arg.y)]
    /\ pc' = "done"
    /\ UNCHANGED <<op, arg, charSigned, misaligned, junk>>

NextOrderTerminated == CallOrderTerminated

SpecOrderTerminated == InitOrderTerminated /\ [][NextOrderTerminated]_vars

\* C20: for NUL-terminated strings of bytes 1..255, order_terminated(a, b) is
\* the ordering that order(a, strlen(a), b, strlen(b)) gives.
C20_OrderTerminatedIsOrder ==
    (pc = "done" /\ op = "order_terminated") => ret.terminated = ret.sized

\* ------------------------------------------- levenshtein: the scratch buffer

\* sizeof(sz_u8_t) and sizeof(sz_size_t) where pointers have 64 bits
sizeof_u8 == 1
sizeof_size == 8

\* a query that looks at the length of b alone to choose the width of a cell
sz_levenshtein_memory_needed_by_b(a_length, b_length) ==
    IF b_length < 256 THEN (b_length + b_length + 2) * sizeof_u8
    ELSE (b_length + b_length + 2) * sizeof_size

\* sz_levenshtein_memory_needed(a_length, b_length), in bytes
sz_levenshtein_memory_needed(a_length, b_length) ==
    IF a_length < 256 /\ b_length < 256 THEN (b_length + b_length + 2) * sizeof_u8
    ELSE (b_length + b_length + 2) * sizeof_size

\* whether sz_levenshtein_serial reaches a kernel for these lengths and bound
levenshtein_calls_kernel(a_length, b_length, bound) ==
    /\ a_length # 0
    /\ b_length # 0
    /\ ~(a_length > b_length /\ a_length - b_length > bound)
    /\ ~(a_length <= b_length /\ b_length - a_length > bound)

\* the width in bytes of a cell of the kernel that sz_levenshtein_serial calls
levenshtein_cell_size(a_length, b_length) ==
    IF a_length < 256 /\ b_length < 256 THEN sizeof_u8 ELSE sizeof_size

\* the cells of `buffer` that a kernel reads or writes in filling the first
\* row and in one pass of its outer loop, as indexes from the start of the
\* buffer; previous_distances is at 0 and current_distances at b_length + 1
\* or, after a swap, the other way round
levenshtein_cells(b_length) ==
    LET first == 0
        second == b_length + 1
    IN  {first + idx_b : idx_b \in 0..b_length}
          \cup {base : base \in {first, second}}
          \cup UNION {{rows[1] + idx_b + 1, rows[2] + idx_b, rows[1] + idx_b,
                         rows[2] + idx_b + 1} :
                        idx_b \in 0..(b_length - 1),
                        rows \in {<<first, second>>, <<second, first>>}}
          \cup {base + b_length : base \in {first, second}}

\* ---------------------------------- specification: levenshtein scratch buffer

MaxScratchShort == 3
ScratchLengths == (0..MaxScratchShort) \cup {254, 255, 256, 257}
ScratchBounds == {0, 2, Unlimited}

InitScratch ==
    /\ pc = "call"
    /\ op = "levenshtein_scratch"
    /\ arg \in [la : ScratchLengths, lb : ScratchLengths, bound : ScratchBounds]
    /\ ret = sz_NULL
    /\ charSigned = TRUE
    /\ misaligned = TRUE
    /\ junk = 0

\* the memory query, then levenshtein on a buffer of that size: the cells the
\* call touches and their width
CallLevenshteinScratch ==
    /\ pc = "call"
    /\ op = "levenshtein_scratch"
    /\ ret' = [needed |-> sz_levenshtein_memory_needed(arg.la, arg.lb),
               cells |-> IF levenshtein_calls_kernel(arg.la, arg.lb, arg.bound)
                         THEN levenshtein_cells(arg.lb) ELSE {},
               cell_size |-> levenshtein_cell_size(arg.la, arg.lb)]
    /\ pc' = "done"
    /\ UNCHANGED <<op, arg, charSigned, misaligned, junk>>

NextScratch == CallLevenshteinScratch

SpecScratch == InitScratch /\ [][NextScratch]_vars

\* C21: levenshtein touches its scratch buffer only below the
\* 2 * (lb + 1) * cell_size bytes that the memory query answers, and the cell
\* width it computes with is the width the query assumed for the same lengths.
C21_ScratchSuffices ==
    (pc = "done" /\ op = "levenshtein_scratch") =>
        /\ ret.needed = 2 * (arg.lb + 1) * ret.cell_size
        /\ \A c \in ret.cells : (c + 1) * ret.cell_size <= ret.needed

\* the last cell of a buffer of 8-byte cells has been touched
C21_Witness ==
    /\ pc = "done"
    /\ op = "levenshtein_scratch"
    /\ arg.la = 256
    /\ arg.lb = 3
    /\ ret.cell_size = 8
    /\ 7 \in ret.cells
    /\ ret.needed = 64

\* ------------------------------------------------------------------- sort

\* a key that packs the first byte of the string as its least significant
sort_key_first_byte_lowest(text) ==
    LET byte(j) == IF j < Len(text) THEN text[j + 1] ELSE 0
    IN  <<byte(3), byte(2), byte(1), byte(0)>>

\* step (1) of sort: the 32-bit key of the first 4 bytes of a string, the
\* first byte the most significant, a shorter string padded with zeros; the
\* key is written as its four bytes, the most significant first
sort_key(text) ==
    LET byte(j) == IF j < Len(text) THEN text[j + 1] ELSE 0
    IN  <<byte(0), byte(1), byte(2), byte(3)>>

\* the digit of a key that the radix pass number `pass` sorts by, pass 0
\* sorting by the least significant
sort_digit(key, pass) == key[4 - pass]

\* one stable counting pass of step (2): the entries of order whose digit is
\* the least of ds, then those of the next digit, and so on
RECURSIVE sort_radix_pass(_, _, _, _)
sort_radix_pass(strings, order, pass, ds) ==
    IF ds = {} THEN <<>>
    ELSE LET d == SetMin(ds)
             has(i) == sort_digit(sort_key(strings[i + 1]), pass) = d
         IN  SelectSeq(order, has) \o sort_radix_pass(strings, order, pass, ds \ {d})

\* the comparator of step (3): full lexicographic comparison of two members
sort_less(strings, i, j) == LexOrder(strings[i + 1], strings[j + 1]) = sz_less_k

\* positions p < q of order that hold members of one run of equal keys in
\* the wrong order
sort_inversions(strings, order) ==
    {pq \in (1..Len(order)) \X (1..Len(order)) :
        /\ pq[1] < pq[2]
        /\ sort_key(strings[order[pq[1]] + 1]) = sort_key(strings[order[pq[2]] + 1])
        /\ sort_less(strings, order[pq[2]], order[pq[1]])}

sort_swap(order, p, q) ==
    [k \in 1..Len(order) |-> IF k = p THEN order[q] ELSE IF k = q THEN order[p] ELSE order[k]]

\* ---------------------------------------------------- specification: sort

MaxSortCount == 3
SortStrings ==
    {<<>>, <<97>>, <<98>>, <<97, 98>>, <<128>>,
     <<97, 97, 97, 97>>, <<97, 97, 97, 97, 98>>, <<97, 97, 97, 97, 97>>}

\* "delta", "alpha", "charlie", "bravo"
SortExample ==
    << <<100, 101, 108, 116, 97>>, <<97, 108, 112, 104, 97>>,
       <<99, 104, 97, 114, 108, 105, 101>>, <<98, 114, 97, 118, 111>> >>

\* a sequence: its strings, and order[i] = i
InitSort ==
    /\ pc = "radix"
    /\ op = "sort"
    /\ arg \in [strings : StringsUpTo(SortStrings, MaxSortCount) \cup {SortExample}]
    /\ ret = [order |-> [i \in 1..Len(arg.strings) |-> i - 1], pass |-> 0]
    /\ charSigned = TRUE
    /\ misaligned = TRUE
    /\ junk = 0

\* step (2): one pass of the radix sort, the lowest digit first
SortRadixPass ==
    /\ pc = "radix"
    /\ op = "sort"
    /\ ret.pass < 4
    /\ ret' = [order |-> sort_radix_pass(arg.strings, ret.order, ret.pass,
                            {sort_digit(sort_key(arg.strings[i + 1]), ret.pass) :
                               i \in {ret.order[k] : k \in 1..Len(ret.order)}}),
               pass |-> ret.pass + 1]
    /\ pc' = IF ret.pass = 3 THEN "runs" ELSE "radix"
    /\ UNCHANGED <<op, arg, charSigned, misaligned, junk>>

\* step (3): the comparator sort of a run of equal keys exchanges two of its
\* members that are in the wrong order
SortRunSwap ==
    /\ pc = "runs"
    /\ op = "sort"
    /\ \E pq \in sort_inversions(arg.strings, ret.order) :
          ret' = [ret EXCEPT !.order = sort_swap(ret.order, pq[1], pq[2])]
    /\ UNCHANGED <<pc, op, arg, charSigned, misaligned, junk>>

\* every run is in order: sort returns
SortReturn ==
    /\ pc = "runs"
    /\ op = "sort"
    /\ sort_inversions(arg.strings, ret.order) = {}
    /\ pc' = "done"
    /\ UNCHANGED <<op, arg, ret, charSigned, misaligned, junk>>

NextSort == SortRadixPass \/ SortRunSwap \/ SortReturn

SpecSort == InitSort /\ [][NextSort]_vars

\* order is a permutation of 0 .. count - 1 and the strings it names are in
\* ascending lexicographic order
SortedPermutation ==
    /\ Len(ret.order) = Len(arg.strings)
    /\ {ret.order[k] : k \in 1..Len(ret.order)} = 0..(Len(arg.strings) - 1)
    /\ \A k \in 1..(Len(ret.order) - 1) :
          LexOrder(arg.strings[ret.order[k] + 1], arg.strings[ret.order[k + 1] + 1])
            # sz_greater_k

\* C22: no step of sort changes the bytes of the strings, and when sort has
\* returned order is a permutation of 0 .. count - 1 in which each string is
\* lexicographically <= the next.
C22_SortSorts ==
    [][arg' = arg /\ (pc' = "done" => SortedPermutation')]_vars

\* "delta", "alpha", "charlie", "bravo" has been sorted to 1, 3, 2, 0
C22_Witness ==
    /\ pc = "done"
    /\ op = "sort"
    /\ arg.strings = SortExample
    /\ ret.order = <<1, 3, 2, 0>>

\* -------------------------------------------- find: needles over 64 bytes

\* the positions c of the haystack where the first prefix_length bytes of the
\* needle lie, the needle as a whole does not, and the needle lies at one of
\* c + 1 .. c + prefix_length - 1
FailedCandidates(h, n) ==
    {c \in 0..(Len(h) - Len(n)) :
        /\ \A k \in 1..prefix_length : h[c + k] = n[k]
        /\ c \notin Occurrences(h, n)
        /\ Occurrences(h, n) \cap ((c + 1)..(c + prefix_length - 1)) # {}}

\* C23: for a needle of more than 64 bytes, when the first 64 bytes match at
\* c and the rest does not, the search goes on from c + 1, so that a match
\* that begins at one of c + 1 .. c + 63 is found.
C23_LongNeedleRetriesFromNext ==
    (pc = "done" /\ op = "find" /\ Len(arg.n) > prefix_length
       /\ FailedCandidates(arg.h, arg.n) # {}) =>
        ret \in Occurrences(arg.h, arg.n)

\* ------------------------------------------------------ sz_export_prefix_u32

\* sz_export_prefix_u32(text, length, prefix_out, mask_out): the two unions,
\* each as its bytes u8s[0] .. u8s[3]; `default:` takes every length but 1,
\* 2 and 3, the length 0 among them, and reads text[0] .. text[3]
sz_export_prefix_u32(text) ==
    CASE Len(text) = 1 ->
           [prefix |-> <<Rd(text, 0), 0, 0, 0>>, mask |-> <<255, 0, 0, 0>>]
      [] Len(text) = 2 ->
           [prefix |-> <<Rd(text, 0), Rd(text, 1), 0, 0>>, mask |-> <<255, 255, 0, 0>>]
      [] Len(text) = 3 ->
           [prefix |-> <<Rd(text, 0), Rd(text, 1), Rd(text, 2), 0>>,
            mask |-> <<255, 255, 255, 0>>]
      [] OTHER ->
           [prefix |-> <<Rd(text, 0), Rd(text, 1), Rd(text, 2), Rd(text, 3)>>,
            mask |-> <<255, 255, 255, 255>>]

\* the indexes of text that sz_export_prefix_u32 reads
export_prefix_reads(text) ==
    CASE Len(text) = 1 -> {0}
      [] Len(text) = 2 -> {0, 1}
      [] Len(text) = 3 -> {0, 1, 2}
      [] OTHER -> {0, 1, 2, 3}

\* x < y for the two sz_u32_t whose bytes in memory are x and y, on a
\* little-endian machine: u8s[3] is the most significant
U32Less(x, y) ==
    \E k \in 1..4 : x[k] < y[k] /\ \A j \in (k + 1)..4 : x[j] = y[j]

\* ---------------------------------- specification: sz_export_prefix_u32

MaxKeyLen == 5
KeyBytes == {97, 98}

InitKey ==
    /\ pc = "call"
    /\ op = "export_prefix"
    /\ arg \in [x : StringsUpTo(KeyBytes, MaxKeyLen), y : StringsUpTo(KeyBytes, MaxKeyLen)]
    /\ ret = sz_NULL
    /\ charSigned = TRUE
    /\ misaligned = TRUE
    /\ junk \in {0, 98}

\* the keys of x and of y, and the indexes of x read for its key
CallExportPrefix ==
    /\ pc = "call"
    /\ op = "export_prefix"
    /\ ret' = [x |-> sz_export_prefix_u32(arg.x).prefix,
               y |-> sz_export_prefix_u32(arg.y).prefix,
               reads |-> export_prefix_reads(arg.x)]
    /\ pc' = "done"
    /\ UNCHANGED <<op, arg, charSigned, misaligned, junk>>

NextKey == CallExportPrefix

SpecKey == InitKey /\ [][NextKey]_vars

\* the first 4 bytes of a string, a shorter string padded with zeros
PaddedPrefix(text) == [k \in 1..4 |-> IF k <= Len(text) THEN text[k] ELSE 0]

\* C24: the key reads only the first min(length, 4) bytes, no byte of an
\* empty string; key(x) < key(y) as 32-bit numbers implies that x precedes y
\* lexicographically, and key(x) = key(y) iff the zero-padded 4-byte prefixes
\* of x and y are equal.
C24_RadixKeyOrdersPrefixes ==
    (pc = "done" /\ op = "export_prefix") =>
        /\ ret.reads \subseteq 0..(Min2(Len(arg.x), 4) - 1)
        /\ U32Less(ret.x, ret.y) => LexOrder(arg.x, arg.y) = sz_less_k
        /\ ret.x = ret.y <=> PaddedPrefix(arg.x) = PaddedPrefix(arg.y)

\* ------------------------------------------- hash: the schedule, on bytes

\* The schedule of the digest computed on 64-bit numbers written as 8 bytes,
\* the least significant first, with arithmetic modulo 2^64.

RECURSIVE RefXorByte(_, _)
RefXorByte(a, b) ==
    IF a = 0 /\ b = 0 THEN 0
    ELSE ((a + b) % 2) + 2 * RefXorByte(a \div 2, b \div 2)

RefXor(x, y) == [k \in 1..8 |-> RefXorByte(x[k], y[k])]

RECURSIVE RefCarry(_, _, _)
RefCarry(x, y, k) ==
    IF k = 1 THEN 0 ELSE (x[k - 1] + y[k - 1] + RefCarry(x, y, k - 1)) \div 256

RefAdd(x, y) == [k \in 1..8 |-> (x[k] + y[k] + RefCarry(x, y, k)) % 256] \o <<>>

\* x times the byte d
RECURSIVE RefScaleCarry(_, _, _)
RefScaleCarry(x, d, k) ==
    IF k = 1 THEN 0 ELSE (x[k - 1] * d + RefScaleCarry(x, d, k - 1)) \div 256

RefScale(x, d) == [k \in 1..8 |-> (x[k] * d + RefScaleCarry(x, d, k)) % 256] \o <<>>

\* x times 256^n
RefShiftBytes(x, n) == [k \in 1..8 |-> IF k > n THEN x[k - n] ELSE 0]

\* x times y, one row of the long multiplication for each byte of y
RECURSIVE RefMulFrom(_, _, _)
RefMulFrom(x, y, j) ==
    IF j > 8 THEN <<0, 0, 0, 0, 0, 0, 0, 0>>
    ELSE RefAdd(RefShiftBytes(RefScale(x, y[j]), j - 1), RefMulFrom(x, y, j + 1))

RefMul(x, y) == RefMulFrom(x, y, 1)

\* x rotated left by r bits, r not a multiple of 8
RefRotl(x, r) ==
    LET at(k) == x[((k - 1) % 8) + 1]
        pow == IF r % 8 = 7 THEN 128 ELSE IF r % 8 = 3 THEN 8 ELSE 2
    IN  [k \in 1..8 |->
           ((at(k - (r \div 8) + 8) * pow) % 256)
             + (at(k - (r \div 8) - 1 + 8) \div (256 \div pow))] \o <<>>

\* 0x87c37b91114253d5 and 0x4cf5ad432745937f, the most significant byte first
RefC1 == <<135, 195, 123, 145, 17, 66, 83, 213>>
RefC2 == <<76, 245, 173, 67, 39, 69, 147, 127>>
\* 0x52dce729 and 0x38495ab5, the most significant byte first
RefN1 == <<0, 0, 0, 0, 82, 220, 231, 41>>
RefN2 == <<0, 0, 0, 0, 56, 73, 90, 181>>
RefNum(msb) == [k \in 1..8 |-> msb[9 - k]]

RefMixK1(k1) == RefMul(RefRotl(RefMul(k1, RefNum(RefC1)), 31), RefNum(RefC2))
RefMixK2(k2) == RefMul(RefRotl(RefMul(k2, RefNum(RefC2)), 33), RefNum(RefC1))

\* 8 bytes of the string from the C index `from` on, as far as `upto`
\* (exclusive), zeros beyond
RefPack(bytes, from, upto) ==
    [k \in 1..8 |-> IF from + k - 1 < upto THEN bytes[from + k] ELSE 0]

\* the two lanes after the full 16-byte blocks that begin before `upto`
RECURSIVE RefBlocks(_, _, _)
RefBlocks(bytes, done, h) ==
    IF Len(bytes) - done < 16 THEN h
    ELSE LET k1 == RefPack(bytes, done, done + 8)
             k2 == RefPack(bytes, done + 8, done + 16)
             five == <<5, 0, 0, 0, 0, 0, 0, 0>>
             h1 == RefAdd(RefMul(RefAdd(RefRotl(RefXor(h[1], RefMixK1(k1)), 27), h[2]),
                                 five), RefNum(RefN1))
             h2 == RefAdd(RefMul(RefAdd(RefRotl(RefXor(h[2], RefMixK2(k2)), 31), h1),
                                 five), RefNum(RefN2))
         IN  RefBlocks(bytes, done + 16, <<h1, h2>>)

\* the digest of the schedule: both lanes start at the length, the blocks,
\* the tail of 1-15 bytes packed into k1 (bytes 0..7) and k2 (bytes 8..14)
\* and mixed into the lanes, h1 + h2
RefHash(bytes) ==
    LET n == Len(bytes)
        seed == <<n % 256, n \div 256, 0, 0, 0, 0, 0, 0>>
        h == RefBlocks(bytes, 0, <<seed, seed>>)
        done == n - (n % 16)
        k1 == RefPack(bytes, done, Min2(n, done + 8))
        k2 == RefPack(bytes, done + 8, Min2(n, done + 15))
    IN  RefAdd(RefXor(h[1], RefMixK1(k1)), RefXor(h[2], RefMixK2(k2)))

\* C25: for every input hash returns the digest of the schedule, with all
\* arithmetic modulo 2^64: both lanes seeded with the length, each 16-byte
\* block mixed into h1 and h2, the tail bytes packed little-endian into k1
\* and k2 and mixed in, and h1 + h2 returned without a final avalanche.
C25_HashFollowsSchedule ==
    (pc = "done" /\ op = "hash") => ToBytes(ret.alone) = RefHash(arg.bytes)

\* a string of one block and a tail has been hashed
C25_Witness ==
    /\ pc = "done"
    /\ op = "hash"
    /\ Len(arg.bytes) = 17
    /\ ToBytes(ret.alone) = RefHash(arg.bytes)

\* --------------------------- specification: the two kernels of levenshtein

\* strings of 254 and 255 bytes, the longest that the 8-bit kernel is given
KernelLong ==
    UNION {{Rep(98, n), Poke(Rep(98, n), n - 1, 97)} : n \in {MaxLevLong - 2, MaxLevLong - 1}}

InitLevKernels ==
    /\ pc = "call"
    /\ op = "levenshtein_kernels"
    /\ arg \in [x : LevShort \cup KernelLong, y : LevShort \cup KernelLong,
                 bound : LevBounds]
    /\ arg.x \in LevShort \/ arg.y \in LevShort
    /\ ret = sz_NULL
    /\ charSigned = TRUE
    /\ misaligned = TRUE
    /\ junk = 98

\* the same strings and bound given to the 8-bit kernel and to the
\* pointer-width kernel
CallLevenshteinKernels ==
    /\ pc = "call"
    /\ op = "levenshtein_kernels"
    /\ ret' = [u8 |-> sz_levenshtein_serial_upto256bytes(arg.x, arg.y, arg.bound),
               wide |-> sz_levenshtein_serial_over256bytes(arg.x, arg.y, arg.bound)]
    /\ pc' = "done"
    /\ UNCHANGED <<op, arg, charSigned, misaligned, junk>>

NextLevKernels == CallLevenshteinKernels

SpecLevKernels == InitLevKernels /\ [][NextLevKernels]_vars

\* C26: for two strings of at most 255 bytes each and every bound the kernel
\* with 8-bit cells returns what the kernel with pointer-width cells returns:
\* no cell and no cost wraps modulo 256.
C26_NarrowKernelIsWideKernel ==
    (pc = "done" /\ op = "levenshtein_kernels") => ret.u8 = ret.wide

\* ------------------------------------------ rfind_byte: the bytes it reads

\* The indexes of the haystack that sz_rfind_byte_serial reads, loop by loop
\* as the loops of sz_rfind_byte_serial_head, _swar and _tail above.

RECURSIVE rfind_byte_reads_tail(_, _, _)
rfind_byte_reads_tail(h, needle, t) ==
    IF t >= 0
    THEN {t} \cup (IF Rd(h, t) = Rd(needle, 0) THEN {}
                   ELSE rfind_byte_reads_tail(h, needle, t - 1))
    ELSE {}

\* sz_u64_t text_slice = *(sz_u64_t const *)text reads text[0 .. 7]
RECURSIVE rfind_byte_reads_swar(_, _, _)
rfind_byte_reads_swar(h, needle, t) ==
    IF t - 8 >= 0
    THEN LET text_slice == sz_u64_unaligned_load(h, t)
             match_indicators == sz_u64_each_byte_equal(text_slice, BroadcastByte(needle))
         IN  (t..(t + 7)) \cup (IF match_indicators # {} THEN {}
                                ELSE rfind_byte_reads_swar(h, needle, t - 8))
    ELSE rfind_byte_reads_tail(h, needle, t)

RECURSIVE rfind_byte_reads_head(_, _, _, _)
rfind_byte_reads_head(h, align, needle, t) ==
    IF AddressLow3(align, t) # 0 /\ t >= 0
    THEN {t} \cup (IF Rd(h, t) = Rd(needle, 0) THEN {}
                   ELSE rfind_byte_reads_head(h, align, needle, t - 1))
    ELSE rfind_byte_reads_swar(h, needle, t)

rfind_byte_reads(h, align, needle) == rfind_byte_reads_head(h, align, needle, Len(h) - 1)

\* ------------------------------------- specification: the reads of rfind_byte

InitReads ==
    /\ pc = "call"
    /\ op = "rfind_byte_reads"
    /\ arg \in [h : UNION {Haystacks(n) : n \in 0..MaxHayLen},
                 n : {<<c>> : c \in NeedleBytes},
                 align : 0..7]
    /\ ret = sz_NULL
    /\ charSigned \in BOOLEAN
    /\ misaligned = TRUE
    /\ junk \in {97, 128}

\* sz_rfind_byte_serial, with the indexes of the haystack it read
CallRfindByteReads ==
    /\ pc = "call"
    /\ op = "rfind_byte_reads"
    /\ ret' = [found |-> sz_rfind_byte_serial(arg.h, arg.align, arg.n),
               reads |-> rfind_byte_reads(arg.h, arg.align, arg.n)]
    /\ pc' = "done"
    /\ UNCHANGED <<op, arg, charSigned, misaligned, junk>>

NextReads == CallRfindByteReads

SpecReads == InitReads /\ [][NextReads]_vars

\* C27: every byte of the haystack that find, find_byte and rfind_byte read
\* has an index in [0, lh), and no 8-byte load reaches past the end or before
\* the start of the haystack; here for rfind_byte.
C27_ReadsStayInside ==
    (pc = "done" /\ op = "rfind_byte_reads") =>
        ret.reads \subseteq 0..(Len(arg.h) - 1)

\* ------------------------------ specification: tolower, toupper, one on another

InitCaseTwice ==
    /\ pc = "call"
    /\ op = "case_twice"
    /\ arg \in [text : {<<c>> : c \in 0..255}]
    /\ ret = sz_NULL
    /\ charSigned \in BOOLEAN
    /\ misaligned = TRUE
    /\ junk \in {65, 200}

\* to_upper and to_lower of the text, and of what they wrote
CallCaseTwice ==
    /\ pc = "call"
    /\ op = "case_twice"
    /\ ret' = [upper |-> sz_toupper_serial(arg.text),
               lower |-> sz_tolower_serial(arg.text),
               upper_upper |-> sz_toupper_serial(sz_toupper_serial(arg.text)),
               lower_lower |-> sz_tolower_serial(sz_tolower_serial(arg.text)),
               lower_upper |-> sz_tolower_serial(sz_toupper_serial(arg.text))]
    /\ pc' = "done"
    /\ UNCHANGED <<op, arg, charSigned, misaligned, junk>>

NextCaseTwice == CallCaseTwice

SpecCaseTwice == InitCaseTwice /\ [][NextCaseTwice]_vars

\* C28: for every byte c of 0..255, to_upper(to_upper(c)) = to_upper(c),
\* to_lower(to_lower(c)) = to_lower(c) and to_lower(to_upper(c)) = to_lower(c).
C28_CaseIsIdempotent ==
    (pc = "done" /\ op = "case_twice") =>
        /\ ret.upper_upper = ret.upper
        /\ ret.lower_lower = ret.lower
        /\ ret.lower_upper = ret.lower

\* --------------------------------------- alignment_score: the recurrence

\* subs[ca * 256 + cb] with ca and cb taken as unsigned bytes
RefSubs(subs, ca, cb) == IF ca = cb THEN AsChar(subs.same) ELSE AsChar(subs.other)

\* the cell for the first i bytes of a and the first j bytes of b:
\* curr[j+1] = min(prev[j+1] + gap, curr[j] + gap, prev[j] + subs[a[i]*256 + b[j]]),
\* the first row holding j and the first column i
RECURSIVE RefAlignment(_, _, _, _, _, _)
RefAlignment(a, b, gap, subs, i, j) ==
    IF i = 0 THEN j
    ELSE IF j = 0 THEN i
    ELSE LET down == RefAlignment(a, b, gap, subs, i - 1, j) + gap
             right == RefAlignment(a, b, gap, subs, i, j - 1) + gap
             diag == RefAlignment(a, b, gap, subs, i - 1, j - 1) + RefSubs(subs, a[i], b[j])
         IN  Min2(down, Min2(right, diag))

\* C29: in alignment_score the cost of substituting a[i] by b[j] is read at
\* the index a[i] * 256 + b[j] of subs with both bytes unsigned, an index of
\* 0 .. 65535 also for bytes of 128 and more, and the score is that of the
\* recurrence over these costs.
C29_SubsIndexIsUnsigned ==
    (pc = "done" /\ op = "alignment_score_pair" /\ Len(arg.x) > 0 /\ Len(arg.y) > 0) =>
        /\ \A i \in 1..Len(arg.x), j \in 1..Len(arg.y) :
              subs_index(arg.x[i], arg.y[j]) = arg.x[i] * 256 + arg.y[j]
        /\ ret.xy = RefAlignment(arg.x, arg.y, arg.gap, arg.subs, Len(arg.x), Len(arg.y))

\* ------------------------- find: the loop for needles of more than 64 bytes

\* a loop that looks for the next candidate from the last one on
find_long_next_i_at_found(found) == (found - 1) + 1

\* i = found - haystack + prefix_length - 1, then the ++i of the loop
find_long_next_i(found) == (found + prefix_length - 1) + 1

\* what sz_find_under64byte_serial(haystack + i, haystack_length - i, needle,
\* prefix_length) may answer: the value the code computes, or, where it
\* indexes pattern_mask with a negative char, NULL or any value that its
\* `return haystack + i - needle_length + 1` can give in a round of its scan
find_long_candidates(h, needle, i) ==
    LET found == sz_find_under64byte_serial(h, i, Len(h) - i, needle, prefix_length)
    IN  IF found = sz_UB
        THEN {sz_NULL} \cup {i + k - prefix_length + 1 : k \in 0..(Len(h) - i - 1)}
        ELSE {found}

\* ----------------------------------- specification: the long-needle loop

MaxLoopSlack == 130
LoopSlacks == {0, 1, 64, 66, MaxLoopSlack}

\* needles of 65 bytes; haystacks of HayFill that are 0 .. MaxLoopSlack bytes
\* longer, alone or with the needle at their end or one byte before it
LoopArgs ==
    UNION {[h : UNION {{Rep(HayFill, Len(n) + d)}
                          \cup {Plant(Rep(HayFill, Len(n) + d), p, n) :
                                  p \in {d - 1, d} \cap (0..d)} : d \in LoopSlacks},
            n : {n}] :
           n \in {Rep(HayFill, prefix_length) \o <<c>> : c \in NeedleLastBytes}}

\* sz_find_serial has reached its last loop: i = 0; rounds counts the
\* iterations begun
InitFindLoop ==
    /\ pc = "loop"
    /\ op = "find_long"
    /\ arg \in LoopArgs
    /\ ret = [i |-> 0, found |-> sz_NULL, rounds |-> 0]
    /\ charSigned \in BOOLEAN
    /\ misaligned = TRUE
    /\ junk = 98

\* one iteration of for (i = 0; i <= haystack_length - needle_length; ++i)
FindLongIteration ==
    /\ pc = "loop"
    /\ op = "find_long"
    /\ ret.i <= Len(arg.h) - Len(arg.n)
    /\ \E found \in find_long_candidates(arg.h, arg.n, ret.i) :
          IF found = sz_NULL
          THEN /\ pc' = "done"
               /\ ret' = [ret EXCEPT !.found = sz_NULL, !.rounds = @ + 1]
          ELSE IF sz_equal_serial(arg.h, found + prefix_length, arg.n, prefix_length,
                                  Len(arg.n) - prefix_length) = 1
          THEN /\ pc' = "done"
               /\ ret' = [ret EXCEPT !.found = found, !.rounds = @ + 1]
          ELSE /\ pc' = "loop"
               /\ ret' = [ret EXCEPT !.i = find_long_next_i(found), !.rounds = @ + 1]
    /\ UNCHANGED <<op, arg, charSigned, misaligned, junk>>

\* the condition of the loop fails: return NULL
FindLongExit ==
    /\ pc = "loop"
    /\ op = "find_long"
    /\ ret.i > Len(arg.h) - Len(arg.n)
    /\ pc' = "done"
    /\ ret' = [ret EXCEPT !.found = sz_NULL]
    /\ UNCHANGED <<op, arg, charSigned, misaligned, junk>>

NextFindLoop == FindLongIteration \/ FindLongExit

SpecFindLoop == InitFindLoop /\ [][NextFindLoop]_vars

\* C30: in the loop for needles of more than 64 bytes the index i is larger
\* at the start of each iteration than at the start of the one before and
\* never beyond lh, so that the loop runs at most lh + 1 times, and the loop
\* ends with a verified match, with the prefix kernel answering not-found,
\* or with i beyond lh - ln.
C30_FindLoopTerminates ==
    [][/\ pc' = "loop" => (ret'.i > ret.i /\ ret'.i <= Len(arg.h))
       /\ ret'.rounds <= Len(arg.h) + 1
       /\ pc' = "done" =>
             \/ ret'.found \in Occurrences(arg.h, arg.n)
             \/ ret.i > Len(arg.h) - Len(arg.n)
             \/ sz_NULL \in find_long_candidates(arg.h, arg.n, ret.i)]_vars

\* the loop has ended after two candidates that failed
C30_Witness ==
    /\ pc = "done"
    /\ op = "find_long"
    /\ ret.i = 2 * prefix_length
    /\ ret.rounds = 2
    /\ ret.found = sz_NULL

====
